---- MODULE Spec2Model ----
(***************************************************************************)
(* Particle simulation stepping and replay engine.                         *)
(*                                                                         *)
(* Modelled code:                                                          *)
(*   ParticlePool      src/unnamed/part_012 (the pool with emissionTime)   *)
(*   Step.run          src/src/core/Force.ts, lines 201-255                *)
(*   HistoryStore      src/src/lib/particle-system/core/history-store.ts   *)
(*   Simulation        src/src/core/simulation.ts                          *)
(*   Trails            src/src/extras/trail.ts, lines 222-296              *)
(*   RNG wiring        src/src/renderer/types.ts, lines 373-385            *)
(*                                                                         *)
(* Numbers are integers: fixedDt is 1, so times, positions and velocities  *)
(* stay integral.  Of the eleven parallel columns of the pool the model    *)
(* keeps px, vx, emissionTime, lifetime and size; py/vy are handled by the *)
(* code exactly like px/vx and r,g,b,a exactly like size.                  *)
(***************************************************************************)
EXTENDS Integers, Sequences, FiniteSets, TLC

VARIABLES
    sim,     \* the Simulation object (record, see NewSimulation)
    sim2,    \* a second Simulation built from the same configuration
    op,      \* the last call made by the host: [name, n]
    scen,    \* observer of the play / pause / stepBackward / stepForward scenario
    pool,    \* a stand-alone ParticlePool driven directly
    ref,     \* reference list of the particles of `pool`
    pres,    \* result of the last direct pool call
    sres,    \* input and result of the last direct Step.run call
    hs,      \* a stand-alone HistoryStore, its pushes and the last read
    xs       \* stand-alone Trails and EmittedPixels objects and a held snapshot

vars == <<sim, sim2, op, scen, pool, ref, pres, sres, hs, xs>>

----------------------------------------------------------------------------
(* Bounds of the model *)

Capacity == 3          \* capacity of every pool
MaxStep == 3           \* largest step index the host drives the simulation to
MaxN == 2              \* largest n passed to stepForward / stepBackward
MaxHistory == 2        \* maxHistory of the history store
MaxSpawns == 2         \* number of particles the direct pool driver creates
MaxBatch == 2          \* longest descriptor list passed to spawnBatch directly
MaxTime == 2           \* largest context time of a direct Step.run call
TrailMaxLength == 2     \* maxLength of the Trails extension
PixelsMaxLength == 2    \* maxLength of the EmittedPixels extension
MaxWrites == 5         \* the host stops stepping once the history took this many pushes
MaxPushes == 4         \* number of pushes into the history store driven directly
MaxExtCalls == 4       \* number of calls made on the extensions driven directly
MaxExtRows == 2        \* largest pool count in the payloads of those calls

(* Program constants *)

FixedDt == 1           \* config.fixedDt
BaseSeed == 0          \* config.baseSeed (default)
GOLDEN == 40503        \* 0x9e37: the leading 16 bits of 0x9e3779b9
RngMod == 65536        \* modulus of the host generator, 2^16
RngMul == 25173        \* multiplier of the host generator
RngInc == 13849        \* increment of the host generator

Min(a, b) == IF a < b THEN a ELSE b
Max(a, b) == IF a > b THEN a ELSE b

Rows == 0 .. (Capacity - 1)

----------------------------------------------------------------------------
(* ParticlePool *)

ZeroColumn == [i \in Rows |-> 0]

NewPool ==
    [count |-> 0, px |-> ZeroColumn, vx |-> ZeroColumn,
     emissionTime |-> ZeroColumn, lifetime |-> ZeroColumn, size |-> ZeroColumn]

\* One row of the pool as a record.
Row(p, i) ==
    [px |-> p.px[i], vx |-> p.vx[i], emissionTime |-> p.emissionTime[i],
     lifetime |-> p.lifetime[i], size |-> p.size[i]]

\* The live rows [0, count) as a sequence.
Live(p) == [k \in 1 .. p.count |-> Row(p, k - 1)]

\* spawn without the capacity check.
spawnUnchecked(p, input, emissionTime) ==
    LET i == p.count IN
    [pool |-> [count |-> p.count + 1,
               px |-> [p.px EXCEPT ![i] = input.px],
               vx |-> [p.vx EXCEPT ![i] = input.vx],
               emissionTime |-> [p.emissionTime EXCEPT ![i] = emissionTime],
               lifetime |-> [p.lifetime EXCEPT ![i] = input.lifetime],
               size |-> [p.size EXCEPT ![i] = input.size]],
     ret |-> TRUE]

spawn(p, input, emissionTime) ==
    IF p.count >= Capacity
    THEN [pool |-> p, ret |-> FALSE]
    ELSE LET i == p.count IN
         [pool |-> [count |-> p.count + 1,
                    px |-> [p.px EXCEPT ![i] = input.px],
                    vx |-> [p.vx EXCEPT ![i] = input.vx],
                    emissionTime |-> [p.emissionTime EXCEPT ![i] = emissionTime],
                    lifetime |-> [p.lifetime EXCEPT ![i] = input.lifetime],
                    size |-> [p.size EXCEPT ![i] = input.size]],
          ret |-> TRUE]

\* spawnBatch that keeps the trailing descriptors when the batch does not fit.
spawnBatchTail(p, descriptors, emissionTime) ==
    LET space == Capacity - p.count
        n == Min(space, Len(descriptors))
        At(i) == descriptors[Len(descriptors) - n + i - p.count + 1]
        New(i) == i >= p.count /\ i < p.count + n
    IN [pool |-> [count |-> p.count + n,
                  px |-> [i \in Rows |-> IF New(i) THEN At(i).px ELSE p.px[i]],
                  vx |-> [i \in Rows |-> IF New(i) THEN At(i).vx ELSE p.vx[i]],
                  emissionTime |-> [i \in Rows |-> IF New(i) THEN emissionTime
                                                   ELSE p.emissionTime[i]],
                  lifetime |-> [i \in Rows |-> IF New(i) THEN At(i).lifetime
                                               ELSE p.lifetime[i]],
                  size |-> [i \in Rows |-> IF New(i) THEN At(i).size ELSE p.size[i]]],
        ret |-> n]

\* spawnBatch that does not clamp the batch to the free space
spawnBatchBroken(p, descriptors, emissionTime) ==
    LET n == Len(descriptors)
        At(i) == descriptors[i - p.count + 1]
        New(i) == i >= p.count /\ i < p.count + n
    IN [pool |-> [count |-> p.count + n,
                  px |-> [i \in Rows |-> IF New(i) THEN At(i).px ELSE p.px[i]],
                  vx |-> [i \in Rows |-> IF New(i) THEN At(i).vx ELSE p.vx[i]],
                  emissionTime |-> [i \in Rows |-> IF New(i) THEN emissionTime
                                                   ELSE p.emissionTime[i]],
                  lifetime |-> [i \in Rows |-> IF New(i) THEN At(i).lifetime
                                               ELSE p.lifetime[i]],
                  size |-> [i \in Rows |-> IF New(i) THEN At(i).size ELSE p.size[i]]],
        ret |-> n]

spawnBatch(p, descriptors, emissionTime) ==
    LET space == Capacity - p.count
        n == Min(space, Len(descriptors))
        At(i) == descriptors[i - p.count + 1]
        New(i) == i >= p.count /\ i < p.count + n
    IN [pool |-> [count |-> p.count + n,
                  px |-> [i \in Rows |-> IF New(i) THEN At(i).px ELSE p.px[i]],
                  vx |-> [i \in Rows |-> IF New(i) THEN At(i).vx ELSE p.vx[i]],
                  emissionTime |-> [i \in Rows |-> IF New(i) THEN emissionTime
                                                   ELSE p.emissionTime[i]],
                  lifetime |-> [i \in Rows |-> IF New(i) THEN At(i).lifetime
                                               ELSE p.lifetime[i]],
                  size |-> [i \in Rows |-> IF New(i) THEN At(i).size ELSE p.size[i]]],
        ret |-> n]

\* kill without the check of the lower end of the live range.
killUnchecked(p, index) ==
    IF p.count = 0 \/ index >= p.count
    THEN p
    ELSE [p EXCEPT !.count = p.count - 1]

\* kill that forgets to copy the lifetime column of the moved row
killBroken(p, index) ==
    IF p.count = 0 \/ index < 0 \/ index >= p.count
    THEN p
    ELSE LET last == p.count - 1 IN
         IF index # last
         THEN [count |-> p.count - 1,
               px |-> [p.px EXCEPT ![index] = p.px[last]],
               vx |-> [p.vx EXCEPT ![index] = p.vx[last]],
               emissionTime |-> [p.emissionTime EXCEPT ![index] = p.emissionTime[last]],
               lifetime |-> p.lifetime,
               size |-> [p.size EXCEPT ![index] = p.size[last]]]
         ELSE [p EXCEPT !.count = p.count - 1]

kill(p, index) ==
    IF p.count = 0 \/ index < 0 \/ index >= p.count
    THEN p
    ELSE LET last == p.count - 1 IN
         IF index # last
         THEN [count |-> p.count - 1,
               px |-> [p.px EXCEPT ![index] = p.px[last]],
               vx |-> [p.vx EXCEPT ![index] = p.vx[last]],
               emissionTime |-> [p.emissionTime EXCEPT ![index] = p.emissionTime[last]],
               lifetime |-> [p.lifetime EXCEPT ![index] = p.lifetime[last]],
               size |-> [p.size EXCEPT ![index] = p.size[last]]]
         ELSE [p EXCEPT !.count = p.count - 1]

\* snapshot() that slices the vx column into px.
snapshotBroken(p) ==
    LET n == p.count
        Slice(col) == [i \in 0 .. (n - 1) |-> col[i]]
    IN [count |-> n, px |-> Slice(p.vx), vx |-> Slice(p.vx),
        emissionTime |-> Slice(p.emissionTime), lifetime |-> Slice(p.lifetime),
        size |-> Slice(p.size)]

\* snapshot(): count and a slice [0, count) of every column.
snapshot(p) ==
    LET n == p.count
        Slice(col) == [i \in 0 .. (n - 1) |-> col[i]]
    IN [count |-> n, px |-> Slice(p.px), vx |-> Slice(p.vx),
        emissionTime |-> Slice(p.emissionTime), lifetime |-> Slice(p.lifetime),
        size |-> Slice(p.size)]

\* snapshotInto(buffer): count and the rows [0, count) are copied into a
\* buffer whose columns have the capacity of the pool.
snapshotInto(p, buffer) ==
    LET Into(col, bcol) == [i \in Rows |-> IF i < p.count THEN col[i] ELSE bcol[i]]
    IN [count |-> p.count, px |-> Into(p.px, buffer.px), vx |-> Into(p.vx, buffer.vx),
        emissionTime |-> Into(p.emissionTime, buffer.emissionTime),
        lifetime |-> Into(p.lifetime, buffer.lifetime),
        size |-> Into(p.size, buffer.size)]

restore(p, snap) ==
    LET n == Min(snap.count, Capacity)
        Set(col, scol) == [i \in Rows |-> IF i < n THEN scol[i] ELSE col[i]]
    IN IF n = 0
       THEN [p EXCEPT !.count = 0]
       ELSE [count |-> n, px |-> Set(p.px, snap.px), vx |-> Set(p.vx, snap.vx),
             emissionTime |-> Set(p.emissionTime, snap.emissionTime),
             lifetime |-> Set(p.lifetime, snap.lifetime),
             size |-> Set(p.size, snap.size)]

----------------------------------------------------------------------------
(* The host generator behind Context.rng (createRng) *)

\* setStepSeed(stepIndex): seed = baseSeed + stepIndex * 0x9e3779b9, handed
\* to randomSeed, which keeps it modulo the generator's modulus.
seedForStep(base, stepIndex) == base + stepIndex * GOLDEN

\* setStepSeed that seeds with the base seed alone.
setStepSeedBroken(stepIndex) == seedForStep(BaseSeed, 0) % RngMod

setStepSeed(stepIndex) == seedForStep(BaseSeed, stepIndex) % RngMod

\* random(): the generator advances and returns its new state.
random(z) == (RngMul * z + RngInc) % RngMod

----------------------------------------------------------------------------
(* Collaborators: the configured emitters and forces *)

\* makeSimple(config): an emitter returning one fixed descriptor per step.
\* The configuration has one long-lived and one short-lived emitter.
Emitters ==
    << [px |-> 0, vx |-> 1, lifetime |-> 3, size |-> 1],
       [px |-> 5, vx |-> 0, lifetime |-> 1, size |-> 2] >>

emit(emitter, ctx) == << emitter >>

Forces == << "gravity", "turbulence" >>

GravityAx == 1         \* gravity(ax, ay): ax

\* gravity(ax, ay).apply: vx[i] += ax * dt over [0, count).
gravityApply(fc) ==
    [fc EXCEPT !.vx = [i \in Rows |-> IF i < fc.count THEN fc.vx[i] + GravityAx * fc.dt
                                      ELSE fc.vx[i]]]

\* The generator state after k draws.
RECURSIVE Draws(_, _)
Draws(z, k) == IF k = 0 THEN z ELSE Draws(random(z), k - 1)

\* turbulence(mag).apply with mag = 1: two draws per particle, the first
\* added to vx (the second goes to vy).  (random() - 0.5) * 2 * mag lies in
\* [-1, 1); the model keeps its integer part, one of -1, 0, 1.
turbulenceApply(fc) ==
    [fc EXCEPT
        !.vx = [i \in Rows |-> IF i < fc.count
                               THEN fc.vx[i] + ((Draws(fc.rng, 2 * i + 1) % 3) - 1) * fc.dt
                               ELSE fc.vx[i]],
        !.rng = Draws(fc.rng, 2 * fc.count)]

\* force.update(context); force.apply(forceCtx) for one force.
applyForce(force, fc) ==
    IF force = "gravity" THEN gravityApply(fc) ELSE turbulenceApply(fc)

----------------------------------------------------------------------------
(* Step.run: emit, forces, integrate, age and remove *)

\* Stage 1: every emitter's descriptors are batch-spawned at context.time.current.
RECURSIVE emitStage(_, _, _)
emitStage(p, ctx, k) ==
    IF k > Len(Emitters) THEN p
    ELSE emitStage(spawnBatch(p, emit(Emitters[k], ctx), ctx.current).pool, ctx, k + 1)

\* Stage 2: the forces, in list order, over the live range after the emission.
RECURSIVE forceStage(_, _)
forceStage(fc, k) ==
    IF k > Len(Forces) THEN fc ELSE forceStage(applyForce(Forces[k], fc), k + 1)

\* Stage 3: explicit Euler, px[i] += vx[i] * dt over [0, count).
integrateStage(p, dt) ==
    [p EXCEPT !.px = [i \in Rows |-> IF i < p.count THEN p.px[i] + p.vx[i] * dt
                                     ELSE p.px[i]]]

\* One iteration of the removal scan that reached the age test: the row
\* examined, the count at that moment, and whether the row was dead (and so
\* killed).
Iteration(i, count, dead) == [i |-> i, count |-> count, dead |-> dead]

\* A scan that records a pair for every removal, the last row included.
RECURSIVE removeStageAlways(_, _, _, _)
removeStageAlways(p, i, swaps, endTime) ==
    IF i < 0 \/ p.count = 0 THEN [pool |-> p, swaps |-> swaps, scan |-> <<>>]
    ELSE IF endTime - p.emissionTime[i] >= p.lifetime[i]
         THEN LET last == p.count - 1
                  sw == Append(swaps, <<last, i>>)
                  q == kill(p, i)
                  rest == removeStageAlways(q, IF i >= q.count THEN i - 1 ELSE i, sw, endTime)
              IN [rest EXCEPT !.scan = << Iteration(i, p.count, TRUE) >> \o @]
         ELSE LET rest == removeStageAlways(p, i - 1, swaps, endTime)
              IN [rest EXCEPT !.scan = << Iteration(i, p.count, FALSE) >> \o @]

\* A scan that records each swap as (deadIndex, lastIndex).
RECURSIVE removeStageBroken(_, _, _, _)
removeStageBroken(p, i, swaps, endTime) ==
    IF i < 0 \/ p.count = 0 THEN [pool |-> p, swaps |-> swaps, scan |-> <<>>]
    ELSE IF endTime - p.emissionTime[i] >= p.lifetime[i]
         THEN LET last == p.count - 1
                  sw == IF i # last THEN Append(swaps, <<i, last>>) ELSE swaps
                  q == kill(p, i)
                  rest == removeStageBroken(q, IF i >= q.count THEN i - 1 ELSE i, sw, endTime)
              IN [rest EXCEPT !.scan = << Iteration(i, p.count, TRUE) >> \o @]
         ELSE LET rest == removeStageBroken(p, i - 1, swaps, endTime)
              IN [rest EXCEPT !.scan = << Iteration(i, p.count, FALSE) >> \o @]

\* A scan that lets a particle live through the step in which its age
\* reaches its lifetime.
RECURSIVE removeStageLate(_, _, _, _)
removeStageLate(p, i, swaps, endTime) ==
    IF i < 0 \/ p.count = 0 THEN [pool |-> p, swaps |-> swaps, scan |-> <<>>]
    ELSE IF endTime - p.emissionTime[i] > p.lifetime[i]
         THEN LET last == p.count - 1
                  sw == IF i # last THEN Append(swaps, <<last, i>>) ELSE swaps
                  q == kill(p, i)
                  rest == removeStageLate(q, IF i >= q.count THEN i - 1 ELSE i, sw, endTime)
              IN [rest EXCEPT !.scan = << Iteration(i, p.count, TRUE) >> \o @]
         ELSE LET rest == removeStageLate(p, i - 1, swaps, endTime)
              IN [rest EXCEPT !.scan = << Iteration(i, p.count, FALSE) >> \o @]

\* Stage 4: the backward scan from row i; a row is dead when
\* endTime - emissionTime >= lifetime.
RECURSIVE removeStage(_, _, _, _)
removeStage(p, i, swaps, endTime) ==
    IF i < 0 \/ p.count = 0 THEN [pool |-> p, swaps |-> swaps, scan |-> <<>>]
    ELSE IF endTime - p.emissionTime[i] >= p.lifetime[i]
         THEN LET last == p.count - 1
                  sw == IF i # last THEN Append(swaps, <<last, i>>) ELSE swaps
                  q == kill(p, i)
                  rest == removeStage(q, IF i >= q.count THEN i - 1 ELSE i, sw, endTime)
              IN [rest EXCEPT !.scan = << Iteration(i, p.count, TRUE) >> \o @]
         ELSE LET rest == removeStage(p, i - 1, swaps, endTime)
              IN [rest EXCEPT !.scan = << Iteration(i, p.count, FALSE) >> \o @]

\* A run that integrates before the forces are applied.
runIntegrateFirst(ctx, p) ==
    LET dt == ctx.delta
        countBeforeEmit == p.count
        emitted == emitStage(p, ctx, 1)
        added == [k \in 1 .. (emitted.count - countBeforeEmit) |-> countBeforeEmit + k - 1]
        moved == integrateStage(emitted, dt)
        fc == forceStage([count |-> moved.count, px |-> moved.px, vx |-> moved.vx,
                          dt |-> dt, rng |-> ctx.rng], 1)
        forced == [moved EXCEPT !.px = fc.px, !.vx = fc.vx]
        endTime == ctx.current + dt
        removed == removeStage(forced, forced.count - 1, <<>>, endTime)
    IN [rng |-> fc.rng, added |-> added] @@ removed

\* A run whose removal scan starts one row above the last live row, where
\* the pool has one.
runScanFromCount(ctx, p) ==
    LET dt == ctx.delta
        countBeforeEmit == p.count
        emitted == emitStage(p, ctx, 1)
        added == [k \in 1 .. (emitted.count - countBeforeEmit) |-> countBeforeEmit + k - 1]
        fc == forceStage([count |-> emitted.count, px |-> emitted.px, vx |-> emitted.vx,
                          dt |-> dt, rng |-> ctx.rng], 1)
        forced == [emitted EXCEPT !.px = fc.px, !.vx = fc.vx]
        moved == integrateStage(forced, dt)
        endTime == ctx.current + dt
        removed == removeStage(moved, Min(moved.count, Capacity - 1), <<>>, endTime)
    IN [rng |-> fc.rng, added |-> added] @@ removed

\* A run that collects the added rows after the removal scan.
runAddedLate(ctx, p) ==
    LET dt == ctx.delta
        countBeforeEmit == p.count
        emitted == emitStage(p, ctx, 1)
        fc == forceStage([count |-> emitted.count, px |-> emitted.px, vx |-> emitted.vx,
                          dt |-> dt, rng |-> ctx.rng], 1)
        forced == [emitted EXCEPT !.px = fc.px, !.vx = fc.vx]
        moved == integrateStage(forced, dt)
        endTime == ctx.current + dt
        removed == removeStage(moved, moved.count - 1, <<>>, endTime)
        added == [k \in 1 .. (removed.pool.count - countBeforeEmit) |->
                     countBeforeEmit + k - 1]
    IN [rng |-> fc.rng, added |-> added] @@ removed

\* run(context, pool, forces, emitters).  ctx = [current, delta, rng]; the
\* result carries the pool, the generator state and the report {added, swaps}
\* (and the record of the removal scan): the remove stage's result, with the
\* generator state and the added rows put next to it.
run(ctx, p) ==
    LET dt == ctx.delta
        countBeforeEmit == p.count
        emitted == emitStage(p, ctx, 1)
        added == [k \in 1 .. (emitted.count - countBeforeEmit) |-> countBeforeEmit + k - 1]
        fc == forceStage([count |-> emitted.count, px |-> emitted.px, vx |-> emitted.vx,
                          dt |-> dt, rng |-> ctx.rng], 1)
        forced == [emitted EXCEPT !.px = fc.px, !.vx = fc.vx]
        moved == integrateStage(forced, dt)
        endTime == ctx.current + dt
        removed == removeStage(moved, moved.count - 1, <<>>, endTime)
    IN [rng |-> fc.rng, added |-> added] @@ removed

----------------------------------------------------------------------------
(* Trails: the first extension of the simulation (storeEveryNFrames = 1) *)

EmptyMap == [x \in {} |-> <<>>]
MapSet(m, k, v) == [x \in (DOMAIN m) \cup {k} |-> IF x = k THEN v ELSE m[x]]
MapDelete(m, k) == [x \in (DOMAIN m) \ {k} |-> m[x]]

\* The loop over stepResult.swaps.
RECURSIVE trailsSwaps(_, _, _)
trailsSwaps(trails, swaps, k) ==
    IF k > Len(swaps) THEN trails
    ELSE LET from == swaps[k][1]
             to == swaps[k][2]
         IN trailsSwaps(IF from \in DOMAIN trails
                        THEN MapDelete(MapSet(trails, to, trails[from]), from)
                        ELSE MapDelete(trails, to),
                        swaps, k + 1)

\* Trails.update(payload): follow the swaps, then push the position of every
\* live row, dropping the oldest point beyond maxLength.
trailsUpdate(trails, p, stepResult) ==
    LET moved == trailsSwaps(trails, stepResult.swaps, 1)
        Pushed(i) == LET t == (IF i \in DOMAIN moved THEN moved[i] ELSE <<>>) \o <<p.px[i]>>
                     IN IF Len(t) > TrailMaxLength THEN Tail(t) ELSE t
    IN [i \in (DOMAIN moved) \cup {r \in Rows : r < p.count} |->
            IF i < p.count THEN Pushed(i) ELSE moved[i]]

\* Trails.snapshot() and Trails.restore(snap) copy the map point by point.
trailsSnapshot(trails) == [k \in DOMAIN trails |-> [j \in 1 .. Len(trails[k]) |-> trails[k][j]]]
trailsRestore(snap) == [k \in DOMAIN snap |-> [j \in 1 .. Len(snap[k]) |-> snap[k][j]]]

----------------------------------------------------------------------------
(* EmittedPixels: the second extension of the simulation *)

NewEmittedPixels == [nextId |-> 0, currentTime |-> 0, pixels |-> <<>>, drawnToLayerIds |-> {}]

\* The loop over stepResult.added: one pixel per reported row, read from the
\* pool as the step left it.
RECURSIVE pixelsPush(_, _, _, _, _)
pixelsPush(e, p, added, dt, k) ==
    IF k > Len(added) THEN e
    ELSE LET i == added[k]
             pixel == [id |-> e.nextId, x |-> p.px[i] - p.vx[i] * dt, size |-> p.size[i],
                       emissionTime |-> p.emissionTime[i]]
         IN pixelsPush([e EXCEPT !.pixels = Append(@, pixel), !.nextId = @ + 1],
                       p, added, dt, k + 1)

\* while (pixels.length > maxLength) shift
RECURSIVE pixelsTrim(_)
pixelsTrim(e) ==
    IF Len(e.pixels) > PixelsMaxLength
    THEN pixelsTrim([e EXCEPT !.pixels = Tail(@),
                              !.drawnToLayerIds = @ \ {Head(e.pixels).id}])
    ELSE e

\* EmittedPixels.update(payload)
pixelsUpdate(e, payload) ==
    LET dt == payload.context.delta
        timed == [e EXCEPT !.currentTime = payload.context.current + dt]
    IN pixelsTrim(pixelsPush(timed, payload.particles, payload.stepResult.added, dt, 1))

\* EmittedPixels.snapshot() and EmittedPixels.restore(snap) copy pixel by pixel.
pixelsSnapshot(e) ==
    [nextId |-> e.nextId, currentTime |-> e.currentTime,
     pixels |-> [j \in 1 .. Len(e.pixels) |-> e.pixels[j]],
     drawnToLayerIds |-> e.drawnToLayerIds]
pixelsRestore(snap) ==
    [nextId |-> snap.nextId, currentTime |-> snap.currentTime,
     pixels |-> [j \in 1 .. Len(snap.pixels) |-> snap.pixels[j]],
     drawnToLayerIds |-> snap.drawnToLayerIds]

----------------------------------------------------------------------------
(* Trails and EmittedPixels as objects.  Their arrays are objects of a heap, *)
(* held by reference: x = [heap, nextRef, trails, pixels], where trails maps *)
(* a row to the reference of its array and pixels.pixels is the reference   *)
(* of the pixel array.  Points and pixels are never written after they are  *)
(* created and stay values.                                                 *)

\* new Trails(config) and new EmittedPixels(config): an empty map, and the
\* pixel array allocated once.
NewExtensionObjects ==
    [heap |-> MapSet(EmptyMap, 1, <<>>),
     nextRef |-> 2,
     trails |-> EmptyMap,
     pixels |-> [NewEmittedPixels EXCEPT !.pixels = 1]]

\* arr.map(copy) for every array of the map m: new arrays with the same
\* content, and the map from the keys of m to them.
copyArrays(x, m) ==
    LET keys == DOMAIN m
        Fresh(k) == x.nextRef + Cardinality({j \in keys : j < k})
        fresh == {Fresh(k) : k \in keys}
        Source(r) == x.heap[m[CHOOSE k \in keys : Fresh(k) = r]]
    IN [objects |-> [x EXCEPT
                        !.heap = [r \in (DOMAIN x.heap) \cup fresh |->
                                     IF r \in fresh
                                     THEN [j \in 1 .. Len(Source(r)) |-> Source(r)[j]]
                                     ELSE x.heap[r]],
                        !.nextRef = @ + Cardinality(keys)],
        ret |-> [k \in keys |-> Fresh(k)]]

\* The loop over the live rows of Trails.update from row i: the point is
\* pushed onto the array the map holds for the row, a new one if it holds
\* none.
RECURSIVE trailsPushRefs(_, _, _)
trailsPushRefs(x, p, i) ==
    IF i >= p.count THEN x
    ELSE LET has == i \in DOMAIN x.trails
             r == IF has THEN x.trails[i] ELSE x.nextRef
             t == (IF has THEN x.heap[r] ELSE <<>>) \o << p.px[i] >>
             kept == IF Len(t) > TrailMaxLength THEN Tail(t) ELSE t
         IN trailsPushRefs([x EXCEPT !.heap = MapSet(@, r, kept),
                                     !.nextRef = IF has THEN @ ELSE @ + 1,
                                     !.trails = MapSet(@, i, r)],
                           p, i + 1)

\* Trails.update(payload): the swaps move the arrays, not their content.
trailsUpdateRefs(x, p, stepResult) ==
    trailsPushRefs([x EXCEPT !.trails = trailsSwaps(@, stepResult.swaps, 1)], p, 0)

\* A snapshot that hands out the arrays of the map themselves.
trailsSnapshotShared(x) == [objects |-> x, ret |-> x.trails]

\* Trails.snapshot(): a new map of copied arrays.
trailsSnapshotRefs(x) == copyArrays(x, x.trails)

\* Trails.restore(snap): the map is cleared and filled with copies.
trailsRestoreRefs(x, snap) ==
    LET c == copyArrays(x, snap) IN [c.objects EXCEPT !.trails = c.ret]

\* EmittedPixels.update(payload): push and shift act on the pixel array.
pixelsUpdateRefs(x, payload) ==
    LET r == x.pixels.pixels
        u == pixelsUpdate([x.pixels EXCEPT !.pixels = x.heap[r]], payload)
    IN [x EXCEPT !.heap[r] = u.pixels, !.pixels = [u EXCEPT !.pixels = r]]

\* EmittedPixels.snapshot(): a new array of copied pixels.
pixelsSnapshotRefs(x) ==
    LET r == x.pixels.pixels
        c == pixelsSnapshot([x.pixels EXCEPT !.pixels = x.heap[r]])
    IN [objects |-> [x EXCEPT !.heap = MapSet(@, x.nextRef, c.pixels), !.nextRef = @ + 1],
        ret |-> [c EXCEPT !.pixels = x.nextRef]]

\* EmittedPixels.restore(snap): the pixel array is emptied and filled with
\* copies.
pixelsRestoreRefs(x, snap) ==
    LET r == x.pixels.pixels
        c == pixelsRestore([snap EXCEPT !.pixels = x.heap[snap.pixels]])
    IN [x EXCEPT !.heap[r] = c.pixels, !.pixels = [c EXCEPT !.pixels = r]]

\* What a trail map and an EmittedPixels state or snapshot hold.
TrailsContent(heap, m) == [k \in DOMAIN m |-> heap[m[k]]]
PixelsContent(heap, e) == [e EXCEPT !.pixels = heap[e.pixels]]

----------------------------------------------------------------------------
(* The extension list of the simulation and the Extension interface *)

Extensions == << "trails", "emittedPixels" >>

extUpdate(ext, e, payload) ==
    IF ext = "trails" THEN trailsUpdate(e, payload.particles, payload.stepResult)
    ELSE pixelsUpdate(e, payload)
extSnapshot(ext, e) == IF ext = "trails" THEN trailsSnapshot(e) ELSE pixelsSnapshot(e)
extRestore(ext, snap) == IF ext = "trails" THEN trailsRestore(snap) ELSE pixelsRestore(snap)

----------------------------------------------------------------------------
(* HistoryStore: a ring of maxLength pre-allocated slots *)

Slots == 0 .. (MaxHistory - 1)

\* createEmptyPoolSnapshot(capacity)
createEmptyPoolSnapshot ==
    [count |-> 0, px |-> ZeroColumn, vx |-> ZeroColumn, emissionTime |-> ZeroColumn,
     lifetime |-> ZeroColumn, size |-> ZeroColumn]

NewHistoryStore ==
    [slots |-> [i \in Slots |-> [stepIndex |-> 0, pool |-> createEmptyPoolSnapshot,
                                 extensionSnapshots |-> <<>>]],
     writeIndex |-> 0,
     length |-> 0]

\* getNextSlot that hands out the slot after the next one.
getNextSlotBroken(h) == (h.writeIndex + 1) % MaxHistory

\* getNextSlot(): the index of the slot the next push fills.
getNextSlot(h) == h.writeIndex % MaxHistory

\* commitPush that counts every push as one more occupied slot.
commitPushBroken(h) ==
    [h EXCEPT !.writeIndex = h.writeIndex + 1,
              !.length = h.length + 1]

commitPush(h) ==
    [h EXCEPT !.writeIndex = h.writeIndex + 1,
              !.length = Min(h.length + 1, MaxHistory)]

isEmpty(h) == h.length = 0

\* The slot visited by iteration i of the scans (i = 0 is the newest).
slotAt(h, i) == (h.writeIndex - 1 - i + MaxHistory * 2) % MaxHistory

\* A find that scans every slot of the ring, written or not.
RECURSIVE scanFindAll(_, _, _)
scanFindAll(h, stepIndex, i) ==
    IF i >= MaxHistory THEN 0 - 1
    ELSE IF h.slots[slotAt(h, i)].stepIndex = stepIndex THEN slotAt(h, i)
    ELSE scanFindAll(h, stepIndex, i + 1)

\* The loop of find from iteration i: the first slot, newest first, with the
\* step index asked for (-1: undefined).
RECURSIVE scanFind(_, _, _)
scanFind(h, stepIndex, i) ==
    IF i >= h.length THEN 0 - 1
    ELSE IF h.slots[slotAt(h, i)].stepIndex = stepIndex THEN slotAt(h, i)
    ELSE scanFind(h, stepIndex, i + 1)

\* find(stepIndex): the slot found, or -1 for undefined.  The caller gets
\* the slot object itself.
find(h, stepIndex) == scanFind(h, stepIndex, 0)

\* The loop of findLatestNotAfter from iteration i with the best slot so
\* far (-1: undefined).
RECURSIVE scanLatest(_, _, _, _)
scanLatest(h, targetStep, i, best) ==
    IF i >= h.length THEN best
    ELSE LET slot == slotAt(h, i)
             take == /\ h.slots[slot].stepIndex <= targetStep
                     /\ (best = 0 - 1 \/ h.slots[slot].stepIndex > h.slots[best].stepIndex)
         IN scanLatest(h, targetStep, i + 1, IF take THEN slot ELSE best)

\* findLatestNotAfter(targetStep): the slot found, or -1 for undefined.
findLatestNotAfter(h, targetStep) == scanLatest(h, targetStep, 0, 0 - 1)

----------------------------------------------------------------------------
(* Simulation *)

NewSimulation(interval, z) ==
    [stepIndex |-> 0,
     paused |-> TRUE,
     rngSet |-> FALSE,
     boundsSet |-> FALSE,
     historyInterval |-> interval,
     particles |-> NewPool,
     extensions |-> << EmptyMap, NewEmittedPixels >>,
     history |-> NewHistoryStore,
     rng |-> z,          \* state of the host generator
     log |-> <<>>,       \* the Step.run invocations of the current call
     calls |-> <<>>,     \* the calls of the current call, in the order made
     restoreArgs |-> <<>>,   \* what the current call passed to the restore hooks
     threw |-> FALSE]    \* the current call ended in an Error

\* What a call starts from: nothing thrown, no pipeline invocation yet.
Begin(s) == [s EXCEPT !.log = <<>>, !.calls = <<>>, !.restoreArgs = <<>>, !.threw = FALSE]

\* One entry of calls: what was called, on which extension of the list (0
\* when it is not an extension hook), at which step index (inside
\* restoreSnapshot: the label of the snapshot).
Event(hook, ext, step) == [hook |-> hook, ext |-> ext, step |-> step]

setRng(s) == [s EXCEPT !.rngSet = TRUE]
setBounds(s) == [s EXCEPT !.boundsSet = TRUE]

\* A clock that reads the time at the end of the current step.
getTimeBroken(s) == (s.stepIndex + 1) * FixedDt

getTime(s) == s.stepIndex * FixedDt

\* The time part of the context getter.
contextTime(s) == [current |-> getTime(s), delta |-> FixedDt]

playBroken(s) == [s EXCEPT !.paused = FALSE, !.stepIndex = 0]

play(s) == [s EXCEPT !.paused = FALSE]

pause(s) == [s EXCEPT !.paused = TRUE]

isPaused(s) == s.paused

pushSnapshot(s) ==
    LET h == s.history
        slot == getNextSlot(h)
        filled == [stepIndex |-> s.stepIndex,
                   pool |-> snapshotInto(s.particles, h.slots[slot].pool),
                   extensionSnapshots |->
                       [k \in 1 .. Len(Extensions) |->
                           extSnapshot(Extensions[k], s.extensions[k])]]
    IN [s EXCEPT !.history = commitPush([h EXCEPT !.slots[slot] = filled]),
                 !.calls = @ \o [k \in 1 .. Len(Extensions) |->
                                    Event("snapshot", k, s.stepIndex)]
                             \o << Event("commitPush", 0, s.stepIndex) >>]

ensureInitialSnapshot(s) == IF ~isEmpty(s.history) THEN s ELSE pushSnapshot(s)

\* The calls of one restoreSnapshot of an entry with the given label.
RestoreCalls(label) ==
    << Event("setStepSeed", 0, label), Event("particlesRestore", 0, label) >>
        \o [k \in 1 .. Len(Extensions) |-> Event("restore", k, label)]
        \o << Event("setStepIndex", 0, label) >>

\* A restoreSnapshot that sets stepIndex first and reseeds last.
restoreSnapshotIndexFirst(s, slot) ==
    IF ~s.rngSet THEN [s EXCEPT !.threw = TRUE]
    ELSE LET snap == s.history.slots[slot] IN
         [s EXCEPT !.stepIndex = snap.stepIndex,
                   !.particles = restore(s.particles, snap.pool),
                   !.extensions =
                       [k \in 1 .. Len(Extensions) |->
                           extRestore(Extensions[k], snap.extensionSnapshots[k])],
                   !.calls = @ \o << Event("setStepIndex", 0, snap.stepIndex),
                                     Event("particlesRestore", 0, snap.stepIndex) >>
                               \o [k \in 1 .. Len(Extensions) |->
                                      Event("restore", k, snap.stepIndex)]
                               \o << Event("setStepSeed", 0, snap.stepIndex) >>,
                   !.restoreArgs = @ \o [k \in 1 .. Len(Extensions) |->
                                            snap.extensionSnapshots[k]],
                   !.rng = setStepSeed(snap.stepIndex)]

\* A restoreSnapshot that leaves the last extension as it is.
restoreSnapshotStale(s, slot) ==
    IF ~s.rngSet THEN [s EXCEPT !.threw = TRUE]
    ELSE LET snap == s.history.slots[slot] IN
         [s EXCEPT !.rng = setStepSeed(snap.stepIndex),
                   !.particles = restore(s.particles, snap.pool),
                   !.extensions =
                       [k \in 1 .. Len(Extensions) |->
                           IF k < Len(Extensions)
                           THEN extRestore(Extensions[k], snap.extensionSnapshots[k])
                           ELSE s.extensions[k]],
                   !.calls = @ \o RestoreCalls(snap.stepIndex),
                   !.restoreArgs = @ \o snap.extensionSnapshots,
                   !.stepIndex = snap.stepIndex]

\* restoreSnapshot(snap), snap being the slot with the given index.
restoreSnapshot(s, slot) ==
    IF ~s.rngSet THEN [s EXCEPT !.threw = TRUE]
    ELSE LET snap == s.history.slots[slot] IN
         [s EXCEPT !.rng = setStepSeed(snap.stepIndex),
                   !.particles = restore(s.particles, snap.pool),
                   !.extensions =
                       [k \in 1 .. Len(Extensions) |->
                           extRestore(Extensions[k], snap.extensionSnapshots[k])],
                   !.calls = @ \o RestoreCalls(snap.stepIndex),
                   !.restoreArgs = @ \o [k \in 1 .. Len(Extensions) |->
                                            snap.extensionSnapshots[k]],
                   !.stepIndex = snap.stepIndex]

\* for (const ext of this.extensions) ext.update(payload), from the k-th on.
RECURSIVE updateEach(_, _, _)
updateEach(s, payload, k) ==
    IF k > Len(Extensions) THEN s
    ELSE updateEach([s EXCEPT !.extensions[k] = extUpdate(Extensions[k], @, payload),
                              !.calls = Append(@, Event("update", k, s.stepIndex))],
                    payload, k + 1)

\* stepResult is what Step.run returned; the extensions read its added and
\* swaps.
updateExtensions(s, stepResult) ==
    updateEach(s, [particles |-> s.particles, context |-> contextTime(s),
                   stepResult |-> stepResult, frame |-> s.stepIndex], 1)

\* if (this.stepIndex % this.historyInterval === 0) this.pushSnapshot();
pushSnapshotAtInterval(s) ==
    IF s.stepIndex % s.historyInterval = 0 THEN pushSnapshot(s) ELSE s

\* A tick that pushes a snapshot whatever the step index.
tickAlwaysPush(s) ==
    IF ~s.rngSet THEN [s EXCEPT !.threw = TRUE]
    ELSE LET seeded == [s EXCEPT !.rng = setStepSeed(s.stepIndex),
                                 !.calls = Append(@, Event("setStepSeed", 0, s.stepIndex))] IN
         IF ~s.boundsSet THEN [seeded EXCEPT !.threw = TRUE]
         ELSE LET time == contextTime(seeded)
                  r == run([current |-> time.current, delta |-> time.delta,
                            rng |-> seeded.rng], seeded.particles)
                  stepped == [seeded EXCEPT
                                 !.rng = r.rng,
                                 !.particles = r.pool,
                                 !.log = Append(s.log, [stepIndex |-> s.stepIndex,
                                                        current |-> time.current,
                                                        delta |-> time.delta,
                                                        seed |-> seeded.rng]),
                                 !.calls = Append(seeded.calls,
                                                  Event("run", 0, s.stepIndex))]
                  updated == updateExtensions(stepped, r)
                  pushed == pushSnapshot(updated)
              IN [pushed EXCEPT !.stepIndex = s.stepIndex + 1]

\* A tick that pushes the snapshot before the extensions are updated.
tickPushFirst(s) ==
    IF ~s.rngSet THEN [s EXCEPT !.threw = TRUE]
    ELSE LET seeded == [s EXCEPT !.rng = setStepSeed(s.stepIndex),
                                 !.calls = Append(@, Event("setStepSeed", 0, s.stepIndex))] IN
         IF ~s.boundsSet THEN [seeded EXCEPT !.threw = TRUE]
         ELSE LET time == contextTime(seeded)
                  r == run([current |-> time.current, delta |-> time.delta,
                            rng |-> seeded.rng], seeded.particles)
                  stepped == [seeded EXCEPT
                                 !.rng = r.rng,
                                 !.particles = r.pool,
                                 !.log = Append(s.log, [stepIndex |-> s.stepIndex,
                                                        current |-> time.current,
                                                        delta |-> time.delta,
                                                        seed |-> seeded.rng]),
                                 !.calls = Append(seeded.calls,
                                                  Event("run", 0, s.stepIndex))]
                  pushed == pushSnapshotAtInterval(stepped)
                  updated == updateExtensions(pushed, r)
              IN [updated EXCEPT !.stepIndex = s.stepIndex + 1]

\* A tick that keeps drawing from the generator where the last step left it.
tickBroken(s) ==
    IF ~s.rngSet \/ ~s.boundsSet THEN [s EXCEPT !.threw = TRUE]
    ELSE LET time == contextTime(s)
             r == run([current |-> time.current, delta |-> time.delta, rng |-> s.rng],
                      s.particles)
             stepped == [s EXCEPT !.rng = r.rng,
                                  !.particles = r.pool,
                                  !.log = Append(s.log, [stepIndex |-> s.stepIndex,
                                                         current |-> time.current,
                                                         delta |-> time.delta,
                                                         seed |-> s.rng]),
                                  !.calls = Append(s.calls, Event("run", 0, s.stepIndex))]
             updated == updateExtensions(stepped, r)
             pushed == pushSnapshotAtInterval(updated)
         IN [pushed EXCEPT !.stepIndex = s.stepIndex + 1]

tick(s) ==
    IF ~s.rngSet THEN [s EXCEPT !.threw = TRUE]
    ELSE LET seeded == [s EXCEPT !.rng = setStepSeed(s.stepIndex),
                                 !.calls = Append(@, Event("setStepSeed", 0, s.stepIndex))] IN
         IF ~s.boundsSet THEN [seeded EXCEPT !.threw = TRUE]
         ELSE LET time == contextTime(seeded)
                  r == run([current |-> time.current, delta |-> time.delta,
                            rng |-> seeded.rng], seeded.particles)
                  stepped == [seeded EXCEPT
                                 !.rng = r.rng,
                                 !.particles = r.pool,
                                 !.log = Append(s.log, [stepIndex |-> s.stepIndex,
                                                        current |-> time.current,
                                                        delta |-> time.delta,
                                                        seed |-> seeded.rng]),
                                 !.calls = Append(seeded.calls,
                                                  Event("run", 0, s.stepIndex))]
                  updated == updateExtensions(stepped, r)
                  pushed == pushSnapshotAtInterval(updated)
              IN [pushed EXCEPT !.stepIndex = s.stepIndex + 1]

\* while (this.stepIndex < targetStep) this.tick();
RECURSIVE tickUntil(_, _)
tickUntil(s, targetStep) ==
    IF s.threw \/ s.stepIndex >= targetStep THEN s ELSE tickUntil(tick(s), targetStep)

\* update() that runs two steps per frame.
updateCatchUp(s) ==
    IF isPaused(s) THEN s
    ELSE tick(tick(ensureInitialSnapshot(s)))

\* update() that takes the initial snapshot before looking at the paused flag.
updateBroken(s) ==
    LET first == ensureInitialSnapshot(s) IN
    IF isPaused(s) THEN first ELSE tick(first)

update(s) ==
    IF isPaused(s) THEN s
    ELSE tick(ensureInitialSnapshot(s))

\* stepForward that computes its target after restoring the snapshot.
stepForwardBroken(s, n) ==
    IF ~isPaused(s) THEN s
    ELSE LET first == ensureInitialSnapshot(s)
             snap == findLatestNotAfter(first.history, first.stepIndex + n)
             restored == IF snap # 0 - 1 THEN restoreSnapshot(first, snap) ELSE first
         IN tickUntil(restored, restored.stepIndex + n)

stepForward(s, n) ==
    IF ~isPaused(s) THEN s
    ELSE LET first == ensureInitialSnapshot(s)
             targetStep == first.stepIndex + n
             snap == findLatestNotAfter(first.history, targetStep)
             restored == IF snap # 0 - 1 THEN restoreSnapshot(first, snap) ELSE first
         IN tickUntil(restored, targetStep)

\* stepBackward without the clamp of the target to step 0.
stepBackwardBroken(s, n) ==
    IF ~isPaused(s) THEN s
    ELSE LET targetStep == s.stepIndex - n
             snap == findLatestNotAfter(s.history, targetStep)
         IN IF snap = 0 - 1 THEN s
            ELSE tickUntil(restoreSnapshot(s, snap), targetStep)

\* stepBackward without the check of the paused flag.
stepBackwardAlways(s, n) ==
    LET targetStep == Max(0, s.stepIndex - n)
        snap == findLatestNotAfter(s.history, targetStep)
    IN IF snap = 0 - 1 THEN s
       ELSE tickUntil(restoreSnapshot(s, snap), targetStep)

stepBackward(s, n) ==
    IF ~isPaused(s) THEN s
    ELSE LET targetStep == Max(0, s.stepIndex - n)
             snap == findLatestNotAfter(s.history, targetStep)
         IN IF snap = 0 - 1 THEN s
            ELSE tickUntil(restoreSnapshot(s, snap), targetStep)

----------------------------------------------------------------------------
(* A pool driven directly by spawn, spawnBatch, kill, snapshot and restore,   *)
(* next to a reference list of its particles.                               *)

\* The descriptor of the id-th particle created by the driver; its fields
\* carry the id, so every particle is distinguishable.
Descriptor(id) == [px |-> id, vx |-> 0 - id, lifetime |-> 10 + id, size |-> 20 + id]

\* The particle a descriptor becomes.
Particle(d, emissionTime) ==
    [px |-> d.px, vx |-> d.vx, emissionTime |-> emissionTime,
     lifetime |-> d.lifetime, size |-> d.size]

\* The driver emits the id-th particle at time EmissionTimeOf(id).
EmissionTimeOf(id) == 30 + id

\* A snapshot taken from a full pool of capacity Capacity + 1 (all its rows
\* hold the same particle).
ForeignSnapshot ==
    LET Col(v) == [i \in 0 .. Capacity |-> v]
    IN [count |-> Capacity + 1, px |-> Col(10), vx |-> Col(11),
        emissionTime |-> Col(12), lifetime |-> Col(13), size |-> Col(14)]

\* The rows of a snapshot as a list.
SnapshotRows(snap) ==
    [k \in 1 .. snap.count |->
        [px |-> snap.px[k - 1], vx |-> snap.vx[k - 1],
         emissionTime |-> snap.emissionTime[k - 1],
         lifetime |-> snap.lifetime[k - 1], size |-> snap.size[k - 1]]]

\* The list model: the first n elements of a list.
Take(list, n) == SubSeq(list, 1, Min(n, Len(list)))

\* The list model of kill(i): element i is replaced by the last, the last dropped.
ListKill(list, i) ==
    LET n == Len(list) IN
    IF i < 0 \/ i >= n THEN list
    ELSE [k \in 1 .. (n - 1) |-> IF k = i + 1 THEN list[n] ELSE list[k]]

PoolIdle ==
    [op |-> "none", arg |-> 0, ret |-> 0, countBefore |-> 0, spawned |-> 0,
     snap |-> snapshot(NewPool), live |-> <<>>]

PoolInit ==
    /\ pool = NewPool
    /\ ref = <<>>
    /\ pres = PoolIdle
    /\ sim = 0 /\ sim2 = 0 /\ op = 0 /\ scen = 0 /\ sres = 0 /\ hs = 0 /\ xs = 0

PoolFrame == UNCHANGED <<sim, sim2, op, scen, sres, hs, xs>>

PoolSpawn ==
        /\ pres.spawned < MaxSpawns
        /\ LET d == Descriptor(pres.spawned + 1)
               et == EmissionTimeOf(pres.spawned + 1)
               r == spawn(pool, d, et)
           IN /\ pool' = r.pool
              /\ ref' = IF Len(ref) < Capacity THEN Append(ref, Particle(d, et)) ELSE ref
              /\ pres' = [pres EXCEPT !.op = "spawn", !.arg = 1,
                                      !.ret = IF r.ret THEN 1 ELSE 0,
                                      !.countBefore = pool.count,
                                      !.spawned = pres.spawned + 1]
        /\ PoolFrame

PoolSpawnBatch ==
    \E k \in 0 .. MaxBatch :
        /\ pres.spawned + k <= MaxSpawns
        /\ LET et == EmissionTimeOf(pres.spawned + 1)
               ds == [j \in 1 .. k |-> Descriptor(pres.spawned + j)]
               r == spawnBatch(pool, ds, et)
           IN /\ pool' = r.pool
              /\ ref' = ref \o Take([j \in 1 .. k |-> Particle(ds[j], et)],
                                    Capacity - Len(ref))
              /\ pres' = [pres EXCEPT !.op = "spawnBatch", !.arg = k, !.ret = r.ret,
                                      !.countBefore = pool.count,
                                      !.spawned = pres.spawned + k]
        /\ PoolFrame

PoolKill ==
    \E i \in (0 - 1) .. Capacity :
        /\ pool' = kill(pool, i)
        /\ ref' = ListKill(ref, i)
        /\ pres' = [pres EXCEPT !.op = "kill", !.arg = i, !.ret = 0,
                                !.countBefore = pool.count]
        /\ PoolFrame

PoolSnapshot ==
    /\ pres.snap.count = 0
    /\ pres' = [pres EXCEPT !.op = "snapshot", !.arg = 0, !.ret = 0,
                            !.countBefore = pool.count, !.snap = snapshot(pool),
                            !.live = Live(pool)]
    /\ UNCHANGED <<pool, ref>>
    /\ PoolFrame

PoolRestore ==
    \E snap \in {pres.snap, ForeignSnapshot} :
        /\ pool' = restore(pool, snap)
        /\ ref' = Take(SnapshotRows(snap), Capacity)
        /\ pres' = [pres EXCEPT !.op = "restore", !.arg = snap.count, !.ret = 0,
                                !.countBefore = pool.count]
        /\ PoolFrame

PoolNext == PoolSpawn \/ PoolSpawnBatch \/ PoolKill \/ PoolSnapshot \/ PoolRestore

SpecPool == PoolInit /\ [][PoolNext]_vars

\* C2: the rows [0, count) of the pool are exactly the particles of the
\* reference list, in the same order, after every spawn, spawnBatch and kill:
\* no surviving particle's fields change, none is duplicated, none is lost.
SwapRemoveRefinesList ==
    /\ pool.count = Len(ref)
    /\ \A k \in 1 .. Len(ref) : k <= Capacity => Row(pool, k - 1) = ref[k]

\* A kill of a row that is not the last one has just moved the last row.
SwapRemoveWitness ==
    /\ pres.op = "kill"
    /\ pres.arg >= 0
    /\ pres.arg < pres.countBefore - 1
    /\ pool.count >= 2

\* C3: 0 <= count <= capacity after every call; spawnBatch adds what it
\* returns, which is at most capacity - count; restore never sets count above
\* the capacity.
CapacityInvariant ==
    /\ pool.count >= 0
    /\ pool.count <= Capacity
    /\ pres.op = "spawnBatch" =>
          /\ pres.ret <= Capacity - pres.countBefore
          /\ pool.count = pres.countBefore + pres.ret
    /\ pres.op = "restore" => pool.count = Min(pres.arg, Capacity)

\* A batch longer than the free space was truncated, and a snapshot with more
\* rows than the capacity was restored.
CapacityWitness ==
    \/ pres.op = "spawnBatch" /\ pres.ret < pres.arg /\ pres.ret > 0
    \/ pres.op = "restore" /\ pres.arg > Capacity

----------------------------------------------------------------------------
(* Step.run driven directly: a pool filled by the host at time 0, then one   *)
(* step per time 0, 1, ..., MaxTime.                                       *)

InitialLifetimes == 1 .. 3

\* A pool into which the host spawned c particles at time 0; the c-th has
\* size 10 + c and the lifetime lf[c].
HostPool(c, lf) ==
    [count |-> c,
     px |-> [i \in Rows |-> IF i < c THEN 10 + i ELSE 0],
     vx |-> ZeroColumn,
     emissionTime |-> ZeroColumn,
     lifetime |-> [i \in Rows |-> IF i < c THEN lf[i] ELSE 0],
     size |-> [i \in Rows |-> IF i < c THEN 10 + i ELSE 0]]

\* What identifies a particle for its whole life: when it was emitted and its size.
Key(row) == <<row.emissionTime, row.size>>

Keys(p) == [k \in 1 .. p.count |-> Key(Row(p, k - 1))]

\* The positions recorded so far for each live particle, by identity: the
\* position of every particle of the pool is appended to its own path.
Recorded(paths, p) ==
    [key \in {Key(Row(p, i)) : i \in 0 .. (p.count - 1)} |->
        LET i == CHOOSE r \in 0 .. (p.count - 1) : Key(Row(p, r)) = key
        IN (IF key \in DOMAIN paths THEN paths[key] ELSE <<>>) \o << p.px[i] >>]

StepInit ==
    /\ \E c \in 0 .. Capacity :
         \E lf \in [0 .. (c - 1) -> InitialLifetimes] :
            sres = [pool |-> HostPool(c, lf), time |-> 0, rng |-> setStepSeed(0),
                    ran |-> FALSE, emitted |-> HostPool(c, lf),
                    added |-> <<>>, swaps |-> <<>>, scan |-> <<>>,
                    trails |-> EmptyMap, paths |-> EmptyMap]
    /\ sim = 0 /\ sim2 = 0 /\ op = 0 /\ scen = 0
    /\ pool = 0 /\ ref = 0 /\ pres = 0 /\ hs = 0 /\ xs = 0

\* One step: Step.run, then Trails.update with its result, as tick() does.
StepRun ==
    /\ sres.time <= MaxTime
    /\ LET ctx == [current |-> sres.time, delta |-> FixedDt, rng |-> setStepSeed(sres.time)]
           r == run(ctx, sres.pool)
       IN sres' = [pool |-> r.pool, time |-> sres.time + FixedDt, rng |-> r.rng,
                   ran |-> TRUE, emitted |-> emitStage(sres.pool, ctx, 1),
                   added |-> r.added, swaps |-> r.swaps, scan |-> r.scan,
                   trails |-> trailsUpdate(sres.trails, r.pool,
                                           [added |-> r.added, swaps |-> r.swaps]),
                   paths |-> Recorded(sres.paths, r.pool)]
    /\ UNCHANGED <<sim, sim2, op, scen, pool, ref, pres, hs, xs>>

StepNext == StepRun

SpecStep == StepInit /\ [][StepNext]_vars

\* The shadow array after the swaps, in order: the entry at fromIndex is
\* moved to toIndex.
RECURSIVE ApplySwaps(_, _, _)
ApplySwaps(shadow, swaps, k) ==
    IF k > Len(swaps) THEN shadow
    ELSE ApplySwaps([shadow EXCEPT ![swaps[k][2] + 1] = shadow[swaps[k][1] + 1]],
                    swaps, k + 1)

\* C4: the identities of the particles live after the emit stage, moved as
\* the returned swaps say and shrunk to the number of survivors, are exactly
\* the identities in rows [0, count) after the step.
SwapReportFidelity ==
    sres.ran =>
        /\ sres.pool.count <= sres.emitted.count
        /\ SubSeq(ApplySwaps(Keys(sres.emitted), sres.swaps, 1), 1, sres.pool.count)
              = Keys(sres.pool)

\* A step in which a particle emitted in this very step was moved by a swap,
\* after a removal of the last row that recorded nothing.
SwapReportWitness ==
    /\ sres.ran
    /\ Len(sres.swaps) >= 1
    /\ \E k \in 1 .. Len(sres.swaps), j \in 1 .. Len(sres.added) :
          sres.swaps[k][1] = sres.added[j]
    /\ sres.emitted.count - sres.pool.count > Len(sres.swaps)

----------------------------------------------------------------------------
(* The host: two simulations built from the same configuration and driven  *)
(* by the same calls.  The generator behind each is the host's own; it      *)
(* starts unseeded and the host's drawing code draws from it between calls. *)

\* The replayable state of a simulation: step index, live rows, extensions.
View(s) == [stepIndex |-> s.stepIndex, rows |-> Live(s.particles),
            extensions |-> s.extensions]

\* The whole object, without the bookkeeping of the current call.
State(s) == [s EXCEPT !.log = <<>>, !.calls = <<>>, !.restoreArgs = <<>>, !.threw = FALSE]

Configured(s) == s.rngSet /\ s.boundsSet

\* States the host generator is found in after the host drew from it.
ArbitraryStates == {4242}

\* The values of config.historyInterval the simulations are built with.
HistoryIntervals == {1, 2}

NoScenario == [phase |-> "init", N |-> 0, k |-> 0, view |-> View(NewSimulation(1, 0))]

\* The observer of "play N steps, pause, stepBackward(k), stepForward(k)".
ScenarioNext(name, n, before, after) ==
    LET other == [NoScenario EXCEPT !.phase = "other"] IN
    IF name \in {"setRng", "setBounds"} THEN
        IF scen.phase = "init" THEN scen ELSE other
    ELSE IF name = "hostRandom" THEN scen
    ELSE IF name = "play" THEN
        IF scen.phase = "init" /\ Configured(before)
        THEN [scen EXCEPT !.phase = "playing"] ELSE other
    ELSE IF name = "update" THEN
        IF scen.phase = "playing" THEN scen ELSE other
    ELSE IF name = "pause" THEN
        IF scen.phase = "playing" /\ before.stepIndex >= 1
        THEN [phase |-> "paused", N |-> before.stepIndex, k |-> 0, view |-> View(before)]
        ELSE other
    ELSE IF name = "stepBackward" THEN
        IF scen.phase = "paused" /\ n >= 1 /\ n <= scen.N
        THEN [scen EXCEPT !.phase = "back", !.k = n] ELSE other
    ELSE IF name = "stepForward" THEN
        IF scen.phase = "back" /\ n = scen.k
        THEN [scen EXCEPT !.phase = "replayed"] ELSE other
    ELSE other

Init ==
    /\ \E interval \in HistoryIntervals :
          /\ sim = NewSimulation(interval, 1)
          /\ sim2 = NewSimulation(interval, 2)
    /\ op = [name |-> "new", n |-> 0]
    /\ scen = NoScenario
    /\ pool = 0 /\ ref = 0 /\ pres = 0 /\ sres = 0 /\ hs = 0 /\ xs = 0

Frame == UNCHANGED <<pool, ref, pres, sres, hs, xs>>

CanStep(n) ==
    /\ sim.stepIndex + n <= MaxStep
    /\ sim.history.writeIndex < MaxWrites

SetRng ==
    /\ ~sim.rngSet
    /\ sim' = setRng(Begin(sim))
    /\ sim2' = setRng(Begin(sim2))
    /\ op' = [name |-> "setRng", n |-> 0]
    /\ scen' = ScenarioNext("setRng", 0, sim, sim')
    /\ Frame

SetBounds ==
    /\ ~sim.boundsSet
    /\ sim' = setBounds(Begin(sim))
    /\ sim2' = setBounds(Begin(sim2))
    /\ op' = [name |-> "setBounds", n |-> 0]
    /\ scen' = ScenarioNext("setBounds", 0, sim, sim')
    /\ Frame

Play ==
    /\ sim' = play(Begin(sim))
    /\ sim2' = play(Begin(sim2))
    /\ op' = [name |-> "play", n |-> 0]
    /\ scen' = ScenarioNext("play", 0, sim, sim')
    /\ Frame

Pause ==
    /\ sim' = pause(Begin(sim))
    /\ sim2' = pause(Begin(sim2))
    /\ op' = [name |-> "pause", n |-> 0]
    /\ scen' = ScenarioNext("pause", 0, sim, sim')
    /\ Frame

\* The draw callback: sim.update() once per display frame.  update() takes
\* no argument: the wall-clock time of the host is not passed on.
Update ==
    /\ CanStep(1)
    /\ sim' = update(Begin(sim))
    /\ sim2' = update(Begin(sim2))
    /\ op' = [name |-> "update", n |-> 0]
    /\ scen' = ScenarioNext("update", 0, sim, sim')
    /\ Frame

StepForward ==
    \E n \in 0 .. MaxN :
        /\ CanStep(n)
        /\ sim' = stepForward(Begin(sim), n)
        /\ sim2' = stepForward(Begin(sim2), n)
        /\ op' = [name |-> "stepForward", n |-> n]
        /\ scen' = ScenarioNext("stepForward", n, sim, sim')
        /\ Frame

StepBackward ==
    \E n \in 0 .. MaxN :
        /\ CanStep(0)
        /\ sim' = stepBackward(Begin(sim), n)
        /\ sim2' = stepBackward(Begin(sim2), n)
        /\ op' = [name |-> "stepBackward", n |-> n]
        /\ scen' = ScenarioNext("stepBackward", n, sim, sim')
        /\ Frame

\* The host's drawing code draws from the generator of the first simulation
\* any number of times, which can leave it in any state; ArbitraryStates
\* samples them.
HostRandom ==
    \E z \in ArbitraryStates :
        /\ sim.rng # z
        /\ sim' = [Begin(sim) EXCEPT !.rng = z]
        /\ sim2' = Begin(sim2)
        /\ op' = [name |-> "hostRandom", n |-> 0]
        /\ scen' = ScenarioNext("hostRandom", 0, sim, sim')
        /\ Frame

Next ==
    \/ SetRng \/ SetBounds \/ Play \/ Pause
    \/ Update \/ StepForward \/ StepBackward \/ HostRandom

Spec == Init /\ [][Next]_vars

\* C1: after playing N steps, pause(), stepBackward(k), stepForward(k) with
\* 1 <= k <= N, the simulation is at step N with the pool rows and the
\* extension state it had right after the N-th update().
ReplayEquivalence ==
    scen.phase = "replayed" =>
        /\ sim.stepIndex = scen.N
        /\ View(sim) = scen.view

\* C5: two simulations built from the same configuration and driven by the
\* same calls have the same step index, the same live rows, the same
\* extension state and the same playback state after every call, whatever
\* state their generators were in.
Determinism ==
    /\ View(sim) = View(sim2)
    /\ sim.paused = sim2.paused
    /\ sim.history = sim2.history

\* Steps were computed while the two generators had been left in different
\* states, and the stochastic force had particles to act on.
DeterminismWitness ==
    /\ op.name = "stepForward"
    /\ Len(sim.log) >= 2
    /\ Len(sim2.log) >= 2
    /\ sim.particles.count >= 2

\* C6: every pipeline invocation for step index s runs with
\* context.time.current = s * fixedDt and context.time.delta = fixedDt.
WallClockIndependence ==
    \A k \in 1 .. Len(sim.log) :
        /\ sim.log[k].current = sim.log[k].stepIndex * FixedDt
        /\ sim.log[k].delta = FixedDt

\* A call that ran the pipeline for a step index above 0, from update() and
\* from scrubbing.
WallClockWitness ==
    /\ op.name \in {"update", "stepBackward"}
    /\ Len(sim.log) >= 1
    /\ sim.log[1].stepIndex >= 1

UpdatePausedNoOp ==
    [][(op'.name = "update" /\ sim.paused) => State(sim') = State(sim)]_vars

\* update() was called on a paused, configured simulation that never took a
\* snapshot, and still has none.
UpdatePausedWitness ==
    /\ op.name = "update"
    /\ sim.paused
    /\ Configured(sim)
    /\ isEmpty(sim.history)

\* C9: a new simulation is Paused at step 0; play() and pause() set the
\* paused flag and nothing else; no other call changes the flag.
PlaybackStateMachine ==
    /\ (sim.paused /\ sim.stepIndex = 0)
    /\ [][/\ op'.name = "play" => State(sim') = [State(sim) EXCEPT !.paused = FALSE]
          /\ op'.name = "pause" => State(sim') = [State(sim) EXCEPT !.paused = TRUE]
          /\ op'.name \notin {"play", "pause"} => sim'.paused = sim.paused]_vars

\* play() was called on a simulation that had already run steps.
PlaybackWitness ==
    /\ op.name = "play"
    /\ ~sim.paused
    /\ sim.stepIndex >= 1
    /\ sim.particles.count >= 1

\* The retained slots of a history store.
Retained(h) == {slotAt(h, i) : i \in 0 .. (h.length - 1)}

\* The retained slots whose step index is at or before t.
NotAfter(h, t) == {j \in Retained(h) : h.slots[j].stepIndex <= t}

\* How many pushes ago slot j was written (0: the newest).
Age(h, j) == CHOOSE i \in 0 .. (h.length - 1) : slotAt(h, i) = j

\* Among the retained slots at or before t, the newest of those with the
\* largest step index.
NewestNotAfter(h, t) ==
    CHOOSE j \in NotAfter(h, t) :
        \A k \in NotAfter(h, t) :
            \/ h.slots[k].stepIndex < h.slots[j].stepIndex
            \/ h.slots[k].stepIndex = h.slots[j].stepIndex /\ Age(h, j) <= Age(h, k)

\* C10: stepBackward(n) while Paused ends at step max(0, stepIndex - n)
\* whenever a snapshot at or before that step is retained, with the content
\* of the newest such snapshot when it is a snapshot of that very step; when
\* none is retained, nothing changes.
StepBackwardTarget ==
    [][(op'.name = "stepBackward" /\ sim.paused) =>
          LET target == Max(0, sim.stepIndex - op'.n) IN
          IF NotAfter(sim.history, target) = {}
          THEN State(sim') = State(sim)
          ELSE /\ sim'.stepIndex = target
               /\ LET snap == sim.history.slots[NewestNotAfter(sim.history, target)] IN
                  snap.stepIndex = target =>
                      /\ sim'.particles.count = snap.pool.count
                      /\ \A i \in Rows : i < snap.pool.count =>
                            Row(sim'.particles, i) = Row(snap.pool, i)
                      /\ sim'.history = sim.history]_vars

\* stepBackward reached back to step 0 from a later step, and stepBackward
\* found every retained snapshot to be after its target.
StepBackwardWitness ==
    /\ op.name = "stepBackward"
    /\ sim.paused
    /\ \/ /\ sim.stepIndex = 0
          /\ sim.history.writeIndex >= 3
          /\ sim.particles.count >= 1
       \/ /\ sim.stepIndex >= 1
          /\ sim.history.length = MaxHistory
          /\ \A j \in Slots : sim.history.slots[j].stepIndex >= sim.stepIndex
          /\ Len(sim.log) = 0

\* C11: stepBackward(n), n >= 1, while Paused runs no pipeline invocation and
\* pushes no snapshot; when it restores, the pool afterwards is the content
\* of a snapshot the history already held.
StepBackwardDirect ==
    [][(op'.name = "stepBackward" /\ op'.n >= 1 /\ sim.paused /\ Configured(sim)) =>
          /\ Len(sim'.log) = 0
          /\ sim'.history = sim.history
          /\ NotAfter(sim.history, Max(0, sim.stepIndex - op'.n)) # {} =>
                \E j \in Retained(sim.history) :
                    Live(sim'.particles) = Live(sim.history.slots[j].pool)]_vars

StepForwardReusesHistory ==
    [][(op'.name = "stepForward" /\ sim.paused /\ Configured(sim)) =>
          \A k \in 1 .. Len(sim'.log) :
              (/\ sim'.log[k].stepIndex >= 1
               /\ sim'.log[k].stepIndex >= sim.stepIndex
               /\ sim'.log[k].stepIndex < sim.stepIndex + op'.n) =>
                  \A j \in Retained(sim.history) :
                      sim.history.slots[j].stepIndex # sim'.log[k].stepIndex]_vars

\* C14: stepForward(n) and stepBackward(n) while Playing change nothing
\* (step index, pool, extensions, generator, history) and raise no error.
ScrubWhilePlayingNoOp ==
    [][(op'.name \in {"stepForward", "stepBackward"} /\ ~sim.paused) =>
          /\ State(sim') = State(sim)
          /\ Len(sim'.log) = 0
          /\ ~sim'.threw]_vars

\* stepBackward(n), n >= 1, was called while Playing on a simulation that
\* had run steps and held snapshots to go back to.
ScrubWhilePlayingWitness ==
    /\ op.name = "stepBackward"
    /\ op.n >= 1
    /\ ~sim.paused
    /\ Configured(sim)
    /\ sim.stepIndex >= 2
    /\ ~isEmpty(sim.history)

\* C15: stepForward(n) and stepBackward(n) while Paused, called before both
\* the generator and the bounds are set, raise an error.
FailFastUnconfigured ==
    [][(/\ op'.name \in {"stepForward", "stepBackward"}
        /\ sim.paused
        /\ ~Configured(sim)) => sim'.threw]_vars

\* C16: every pipeline invocation for step index N starts from the generator
\* state seedForStep(baseSeed, N), whatever calls led there.
ReseedBeforeStep ==
    \A k \in 1 .. Len(sim.log) :
        sim.log[k].seed = seedForStep(BaseSeed, sim.log[k].stepIndex) % RngMod

\* A scrub recomputed step 2 after the host had drawn from the generator or
\* an earlier step had advanced it.
ReseedWitness ==
    /\ op.name \in {"stepForward", "stepBackward"}
    /\ Len(sim.log) >= 1
    /\ sim.log[Len(sim.log)].stepIndex = 2
    /\ sim.log[Len(sim.log)].seed # BaseSeed

\* C17: after stepBackward(n) restored, without recomputing, a snapshot
\* pushed by step L >= 1 (so taken after step L), the generator is seeded as
\* for step L + 1.
ReseedOnRestore ==
    [][(/\ op'.name = "stepBackward"
        /\ op'.n >= 1
        /\ sim.paused
        /\ Configured(sim)
        /\ NotAfter(sim.history, Max(0, sim.stepIndex - op'.n)) # {}
        /\ Len(sim'.log) = 0
        /\ sim'.stepIndex >= 1) =>
          sim'.rng = seedForStep(BaseSeed, sim'.stepIndex + 1) % RngMod]_vars

----------------------------------------------------------------------------
(* A history store driven directly: snapshots with distinct step indices   *)
(* are pushed the way pushSnapshot does it (getNextSlot, fill, commitPush)  *)
(* and read back through find and findLatestNotAfter.                       *)

\* The step indices the driver pushes and asks for.
Labels == 0 .. MaxPushes

\* The pool content pushed with step index l: one row carrying l.
PoolOf(l) == [createEmptyPoolSnapshot EXCEPT !.count = 1, !.px[0] = 100 + l]

\* The slot content pushed with step index l.
EntryOf(l) == [stepIndex |-> l, pool |-> PoolOf(l), extensionSnapshots |-> << l >>]

\* The fill of the next slot followed by commitPush.
push(h, l) == commitPush([h EXCEPT !.slots[getNextSlot(h)] = EntryOf(l)])

HistInit ==
    /\ hs = [store |-> NewHistoryStore, pushed |-> <<>>,
             op |-> "none", arg |-> 0, ret |-> 0 - 1]
    /\ sim = 0 /\ sim2 = 0 /\ op = 0 /\ scen = 0
    /\ pool = 0 /\ ref = 0 /\ pres = 0 /\ sres = 0 /\ xs = 0

HistFrame == UNCHANGED <<sim, sim2, op, scen, pool, ref, pres, sres, xs>>

HistPush ==
    \E l \in Labels :
        /\ Len(hs.pushed) < MaxPushes
        /\ \A k \in 1 .. Len(hs.pushed) : hs.pushed[k] # l
        /\ hs' = [store |-> push(hs.store, l), pushed |-> Append(hs.pushed, l),
                  op |-> "push", arg |-> l, ret |-> 0 - 1]
        /\ HistFrame

HistFind ==
    \E l \in Labels :
        /\ hs' = [hs EXCEPT !.op = "find", !.arg = l, !.ret = find(hs.store, l)]
        /\ HistFrame

HistFindLatestNotAfter ==
    \E t \in Labels :
        /\ hs' = [hs EXCEPT !.op = "findLatestNotAfter", !.arg = t,
                            !.ret = findLatestNotAfter(hs.store, t)]
        /\ HistFrame

\* The caller writes into the object the last read returned: the object is
\* the slot itself, so the write lands in the store.
HistMutate ==
    /\ hs.ret # 0 - 1
    /\ hs.op \in {"find", "findLatestNotAfter"}
    /\ hs' = [hs EXCEPT !.op = "mutate",
                        !.store.slots[hs.ret].stepIndex = 0 - 1,
                        !.store.slots[hs.ret].pool.count = 0]
    /\ HistFrame

HistNext == HistPush \/ HistFind \/ HistFindLatestNotAfter

SpecHistory == HistInit /\ [][HistNext]_vars

HistCallerNext == HistPush \/ HistFind \/ HistFindLatestNotAfter \/ HistMutate

SpecHistoryCaller == HistInit /\ [][HistCallerNext]_vars

\* The step indices of the newest min(p, maxLength) pushes.
Newest(pushed) ==
    {pushed[k] : k \in (Len(pushed) - Min(Len(pushed), MaxHistory) + 1) .. Len(pushed)}

\* C18: after p pushes with distinct step indices exactly the newest
\* min(p, maxLength) snapshots are found by find (with the content pushed)
\* and considered by findLatestNotAfter, no older one is, and the number of
\* occupied slots is min(p, maxLength).
HistoryEviction ==
    LET h == hs.store
        newest == Newest(hs.pushed)
    IN /\ h.length = Min(Len(hs.pushed), MaxHistory)
       /\ h.length <= MaxHistory
       /\ \A l \in Labels :
             IF l \in newest
             THEN find(h, l) # 0 - 1 /\ h.slots[find(h, l)] = EntryOf(l)
             ELSE find(h, l) = 0 - 1
       /\ \A t \in Labels :
             LET below == {l \in newest : l <= t} IN
             IF below = {}
             THEN findLatestNotAfter(h, t) = 0 - 1
             ELSE /\ findLatestNotAfter(h, t) # 0 - 1
                  /\ h.slots[findLatestNotAfter(h, t)].stepIndex \in below
                  /\ \A l \in below : l <= h.slots[findLatestNotAfter(h, t)].stepIndex

\* More snapshots were pushed than the store has slots, and a find for the
\* step index of an overwritten one came back undefined.
HistoryEvictionWitness ==
    /\ Len(hs.pushed) > MaxHistory
    /\ hs.op = "find"
    /\ hs.ret = 0 - 1
    /\ \E k \in 1 .. Len(hs.pushed) : hs.pushed[k] = hs.arg

\* The slots filled by the pushes that took the write index from w0 to w1.
Overwritten(w0, w1) == {w % MaxHistory : w \in w0 .. (w1 - 1)}

\* C19: no call of the simulation (step, restore, scrub) changes the stored
\* content of a slot (step index, pool rows, extension snapshots) other than
\* by a push into it, and pushes go to the slots in ring order, so that a
\* full store loses its oldest entry.
HistoryImmutable ==
    [][\A j \in Slots :
          sim'.history.slots[j] # sim.history.slots[j] =>
              j \in Overwritten(sim.history.writeIndex, sim'.history.writeIndex)]_vars

\* A scrub restored a snapshot, recomputed steps from it and pushed into a
\* full store, while the other slot kept its content.
HistoryImmutableWitness ==
    /\ op.name \in {"stepForward", "stepBackward"}
    /\ sim.paused
    /\ Len(sim.log) >= 1
    /\ sim.history.writeIndex > MaxHistory + 1
    /\ sim.particles.count >= 1
    /\ \E j \in Slots : sim.history.slots[j].pool.count # sim.particles.count

\* C20: what find returns for a retained step index is the content that was
\* pushed, whatever callers did with the objects earlier reads returned.
HistoryReadsAreCopies ==
    \A l \in Newest(hs.pushed) :
        /\ find(hs.store, l) # 0 - 1
        /\ hs.store.slots[find(hs.store, l)] = EntryOf(l)

----------------------------------------------------------------------------
(* The pool driven directly, continued: each call against the state before. *)

\* C21: restore(snapshot()) brings back count and every field of the rows
\* [0, count) as they were when the snapshot was taken, whatever spawns and
\* kills happened in between.
SnapshotRoundTrip ==
    (pres.op = "restore" /\ pres.arg = pres.snap.count) => Live(pool) = pres.live

\* A snapshot with at least two rows was restored into a pool that had
\* changed since: another count and another first row.
SnapshotRoundTripWitness ==
    /\ pres.op = "restore"
    /\ pres.arg = pres.snap.count
    /\ pres.snap.count >= 2
    /\ pres.countBefore # pres.snap.count
    /\ pres.spawned = MaxSpawns

\* C22: spawn on a full pool returns false and changes nothing; spawn on a
\* pool with free rows returns true, writes the descriptor at row count and
\* increments count, leaving the other rows alone.
SpawnContract ==
    [][pres'.op = "spawn" =>
          IF pool.count = Capacity
          THEN pres'.ret = 0 /\ pool' = pool
          ELSE /\ pres'.ret = 1
               /\ pool'.count = pool.count + 1
               /\ Row(pool', pool.count) =
                     Particle(Descriptor(pres'.spawned), EmissionTimeOf(pres'.spawned))
               /\ \A i \in Rows : i # pool.count => Row(pool', i) = Row(pool, i)]_vars

\* spawn was refused by a full pool.
SpawnWitness ==
    /\ pres.op = "spawn"
    /\ pres.ret = 0
    /\ pres.countBefore = Capacity
    /\ pool.count = Capacity

\* C23: spawnBatch returns min(capacity - count, |descriptors|) and appends
\* exactly that many particles, the leading descriptors in their order,
\* without touching the existing rows.
SpawnBatchContract ==
    [][pres'.op = "spawnBatch" =>
          LET n == Min(Capacity - pool.count, pres'.arg) IN
          /\ pres'.ret = n
          /\ pool'.count = pool.count + n
          /\ \A j \in 1 .. n :
                Row(pool', pool.count + j - 1) =
                    Particle(Descriptor(pres.spawned + j), EmissionTimeOf(pres.spawned + 1))
          /\ \A i \in Rows : i < pool.count => Row(pool', i) = Row(pool, i)]_vars

\* A batch of two met a pool with one free row behind existing particles:
\* one descriptor was appended, one dropped.
SpawnBatchWitness ==
    /\ pres.op = "spawnBatch"
    /\ pres.arg = 2
    /\ pres.ret = 1
    /\ pres.countBefore = Capacity - 1

\* C24: kill(index) with index < 0, index >= count or on an empty pool
\* changes neither count nor any row.
KillOutOfRange ==
    [][(pres'.op = "kill" /\ (pres'.arg < 0 \/ pres'.arg >= pool.count)) =>
          pool' = pool]_vars

\* kill(-1) was called on a pool with at least two live rows.
KillOutOfRangeWitness ==
    /\ pres.op = "kill"
    /\ pres.arg < 0
    /\ pres.countBefore >= 2
    /\ pool.count >= 2

----------------------------------------------------------------------------
(* Step.run driven directly, continued: what one step leaves behind. *)

\* C25: the stages of one step run in the order emit, forces, integrate,
\* remove.  Every survivor, the particles emitted in this step included, has
\* the velocity it had after the emit stage plus gravity plus the turbulence
\* drawn for its row after the emit stage from the generator seeded for this
\* step, and the position it had after the emit stage plus that final
\* velocity times dt; the generator is left advanced by two draws for every
\* row live after the emit stage.
StageOrder ==
    sres.ran =>
        LET seed == setStepSeed(sres.time - FixedDt) IN
        /\ sres.rng = Draws(seed, 2 * sres.emitted.count)
        /\ \A j \in 0 .. (sres.pool.count - 1) :
              \E i \in 0 .. (sres.emitted.count - 1) :
                 LET e == Row(sres.emitted, i)
                     r == Row(sres.pool, j)
                     v == e.vx + GravityAx * FixedDt
                               + ((Draws(seed, 2 * i + 1) % 3) - 1) * FixedDt
                 IN /\ Key(e) = Key(r)
                    /\ r.vx = v
                    /\ r.px = e.px + v * FixedDt

\* A step after which a particle emitted in this very step lives on, in a
\* pool whose removal scan moved a row.
StageOrderWitness ==
    /\ sres.ran
    /\ Len(sres.swaps) >= 1
    /\ \E j \in 0 .. (sres.pool.count - 1) :
          sres.pool.emissionTime[j] = sres.time - FixedDt

\* C26: at the end of a step no row of [0, count) has
\* stepEndTime - emissionTime >= lifetime, and every particle live after the
\* emit stage that is not that old is still in the pool; with fixedDt = 1 no
\* particle of lifetime 1 spawned at step 0 or 1 is left after step 2.
RemovalRule ==
    sres.ran =>
        /\ \A j \in 0 .. (sres.pool.count - 1) :
              sres.time - sres.pool.emissionTime[j] < sres.pool.lifetime[j]
        /\ \A i \in 0 .. (sres.emitted.count - 1) :
              sres.time - sres.emitted.emissionTime[i] < sres.emitted.lifetime[i]
                 => \E j \in 0 .. (sres.pool.count - 1) :
                       Key(Row(sres.pool, j)) = Key(Row(sres.emitted, i))
        /\ sres.time = 3 * FixedDt =>
              \A j \in 0 .. (sres.pool.count - 1) :
                 ~(sres.pool.lifetime[j] = 1 /\ sres.pool.emissionTime[j] \in {0, FixedDt})

\* A step that removed a particle whose age reached its lifetime exactly and
\* kept one that was one step younger than its lifetime.
RemovalRuleWitness ==
    /\ sres.ran
    /\ \E i \in 0 .. (sres.emitted.count - 1) :
          /\ sres.time - sres.emitted.emissionTime[i] = sres.emitted.lifetime[i]
          /\ \A j \in 0 .. (sres.pool.count - 1) :
                Key(Row(sres.pool, j)) # Key(Row(sres.emitted, i))
    /\ \E j \in 0 .. (sres.pool.count - 1) :
          sres.time - sres.pool.emissionTime[j] = sres.pool.lifetime[j] - 1

\* C27: the added report of a step is the ascending range
\* [countBeforeEmit, countBeforeEmit + k), k being the number of descriptors
\* that fitted, the emitters taken in list order; it is empty when the pool
\* was full.
AddedReport ==
    [][sres'.ran =>
          LET countBeforeEmit == sres.pool.count
              k == Min(Capacity - countBeforeEmit, Len(Emitters))
          IN /\ sres'.emitted.count = countBeforeEmit + k
             /\ Len(sres'.added) = k
             /\ \A j \in 1 .. k : sres'.added[j] = countBeforeEmit + j - 1
             /\ \A j \in 1 .. k :
                   /\ sres'.emitted.size[sres'.added[j]] = Emitters[j].size
                   /\ sres'.emitted.emissionTime[sres'.added[j]] = sres.time]_vars

\* The emit stage was truncated by the capacity: one descriptor of two fitted.
AddedReportWitness ==
    /\ sres.ran
    /\ Len(sres.added) = 1
    /\ sres.added[1] = Capacity - 1
    /\ sres.emitted.count = Capacity

----------------------------------------------------------------------------
(* The extensions of the simulation: hooks per step, restore, frame 0. *)

\* The calls of one pushSnapshot at the given step index.
PushCalls(step) ==
    [k \in 1 .. Len(Extensions) |-> Event("snapshot", k, step)]
        \o << Event("commitPush", 0, step) >>

\* The calls of one tick at the given step index.
TickCalls(step, interval) ==
    << Event("run", 0, step) >>
        \o [k \in 1 .. Len(Extensions) |-> Event("update", k, step)]
        \o (IF step % interval = 0 THEN PushCalls(step) ELSE <<>>)

\* The calls of the ticks that ran the pipeline invocations log[k], log[k+1], ...
RECURSIVE CallsOf(_, _, _)
CallsOf(log, interval, k) ==
    IF k > Len(log) THEN <<>>
    ELSE TickCalls(log[k].stepIndex, interval) \o CallsOf(log, interval, k + 1)

IsHook(e) == e.hook \in {"run", "update", "snapshot", "commitPush"}
IsRestore(e) == e.hook = "restore"

\* C28: in every executed step each extension's update is called once, in
\* list order, after Step.run returned and before the snapshot of that step
\* is pushed; the entry pushed by a step holds one snapshot() output per
\* extension, in list order, taken of the extension as its update left it.
ExtensionHooks ==
    [][LET initial == IF /\ isEmpty(sim.history)
                         /\ \/ op'.name = "update" /\ ~sim.paused
                            \/ op'.name = "stepForward" /\ sim.paused
                      THEN PushCalls(sim.stepIndex) ELSE <<>>
           n == Len(sim'.log)
           last == sim'.log[n].stepIndex
           entry == sim'.history.slots[(sim'.history.writeIndex - 1) % MaxHistory]
       IN /\ SelectSeq(sim'.calls, IsHook)
                = initial \o CallsOf(sim'.log, sim.historyInterval, 1)
          /\ (n >= 1 /\ last % sim.historyInterval = 0) =>
                /\ entry.stepIndex = last
                /\ Len(entry.extensionSnapshots) = Len(Extensions)
                /\ \A k \in 1 .. Len(Extensions) :
                      entry.extensionSnapshots[k]
                          = extSnapshot(Extensions[k], sim'.extensions[k])]_vars

\* One call ran two steps, each of which updated both extensions and pushed
\* a snapshot, with trails and pixels to record.
ExtensionHooksWitness ==
    /\ Len(sim.log) = 2
    /\ sim.historyInterval = 1
    /\ Len(SelectSeq(sim.calls, IsHook)) = 2 * (2 * Len(Extensions) + 2)
    /\ DOMAIN sim.extensions[1] # {}
    /\ Len(sim.extensions[2].pixels) = PixelsMaxLength

\* C29: when a snapshot is restored, each extension's restore is called once,
\* in list order, with the entry's snapshot of that same extension, before
\* any step is run; when no step follows, each extension is left in the
\* state that snapshot describes.
ExtensionRestore ==
    [][(op'.name \in {"stepForward", "stepBackward"} /\ sim.paused /\ sim.rngSet) =>
          LET h == IF op'.name = "stepForward"
                   THEN ensureInitialSnapshot(sim).history ELSE sim.history
              target == IF op'.name = "stepForward" THEN sim.stepIndex + op'.n
                        ELSE Max(0, sim.stepIndex - op'.n)
              slot == findLatestNotAfter(h, target)
              snap == h.slots[slot]
              restores == SelectSeq(sim'.calls, IsRestore)
              IsRun(e) == e.hook = "run"
              IsBefore(e) == e.hook \in {"run", "restore"}
          IN IF slot = 0 - 1
             THEN restores = <<>> /\ sim'.restoreArgs = <<>>
             ELSE /\ restores = [k \in 1 .. Len(Extensions) |->
                                    Event("restore", k, snap.stepIndex)]
                  /\ SubSeq(SelectSeq(sim'.calls, IsBefore), 1, Len(Extensions)) = restores
                  /\ Len(SelectSeq(sim'.calls, IsRun)) = Len(sim'.log)
                  /\ Len(sim'.restoreArgs) = Len(Extensions)
                  /\ \A k \in 1 .. Len(Extensions) :
                        sim'.restoreArgs[k] = snap.extensionSnapshots[k]
                  /\ sim'.log = <<>> =>
                        \A k \in 1 .. Len(Extensions) :
                           sim'.extensions[k]
                               = extRestore(Extensions[k], snap.extensionSnapshots[k])]_vars

\* stepBackward restored a snapshot holding trails and pixels and ran no step.
ExtensionRestoreWitness ==
    /\ op.name = "stepBackward"
    /\ sim.log = <<>>
    /\ Len(sim.restoreArgs) = Len(Extensions)
    /\ DOMAIN sim.restoreArgs[1] # {}
    /\ sim.restoreArgs[2].nextId >= 2
    /\ sim.extensions[2].pixels = sim.restoreArgs[2].pixels

\* C30: after one or more steps, stepBackward(n) with n >= stepIndex while
\* Paused restores the initial snapshot: stepIndex 0 with the empty pool and
\* the extension state of a new simulation, as long as no snapshot has been
\* evicted yet.
InitialSnapshotFrameZero ==
    [][(/\ op'.name = "stepBackward"
        /\ sim.paused
        /\ Configured(sim)
        /\ sim.stepIndex >= 1
        /\ op'.n >= sim.stepIndex
        /\ sim.history.length >= 1
        /\ sim.history.writeIndex <= MaxHistory) =>
          View(sim') = View(NewSimulation(sim.historyInterval, 0))]_vars

----------------------------------------------------------------------------
(* The history store, the removal scan and the scrubbing, continued. *)

\* C33: findLatestNotAfter(t) returns a retained snapshot with the largest
\* step index <= t, and undefined exactly when there is none; find(s)
\* returns a retained snapshot with step index s, and undefined when none is
\* retained; a slot that was never written is not returned.
FindContract ==
    LET h == hs.store
        p == Len(hs.pushed)
        written == {(k - 1) % MaxHistory : k \in Max(1, p - MaxHistory + 1) .. p}
        same == {j \in written : h.slots[j].stepIndex = hs.arg}
        below == {j \in written : h.slots[j].stepIndex <= hs.arg}
    IN /\ hs.op = "find" =>
             IF same = {} THEN hs.ret = 0 - 1 ELSE hs.ret \in same
       /\ hs.op = "findLatestNotAfter" =>
             IF below = {} THEN hs.ret = 0 - 1
             ELSE /\ hs.ret \in below
                  /\ \A j \in below : h.slots[j].stepIndex <= h.slots[hs.ret].stepIndex

\* find(0) came back undefined from a store that has a written slot with
\* another step index and a never-written slot, which still reads 0.
FindContractWitness ==
    /\ hs.op = "find"
    /\ hs.arg = 0
    /\ hs.ret = 0 - 1
    /\ Len(hs.pushed) >= 1
    /\ Len(hs.pushed) < MaxHistory

\* C34: in the removal scan each removal of a dead row i records (last, i),
\* last being count - 1 at that moment, exactly when i # last, in the order
\* of the removals; so every pair has fromIndex > toIndex, the row moved was
\* examined before and found alive, and there are no more pairs than
\* removals.
SwapRecords ==
    sres.ran =>
        LET IsSwap(it) == it.dead /\ it.i # it.count - 1
            IsDead(it) == it.dead
            swapping == SelectSeq(sres.scan, IsSwap)
        IN /\ sres.swaps = [k \in 1 .. Len(swapping) |->
                                <<swapping[k].count - 1, swapping[k].i>>]
           /\ \A k \in 1 .. Len(sres.swaps) : sres.swaps[k][1] > sres.swaps[k][2]
           /\ Len(sres.swaps) <= Len(SelectSeq(sres.scan, IsDead))
           /\ Len(SelectSeq(sres.scan, IsDead)) = sres.emitted.count - sres.pool.count
           /\ \A t \in 1 .. Len(sres.scan) :
                 IsSwap(sres.scan[t]) =>
                    \E u \in 1 .. (t - 1) :
                       /\ sres.scan[u].i = sres.scan[t].count - 1
                       /\ ~sres.scan[u].dead

\* A scan with two removals that recorded one pair: the last row was removed
\* without a pair, a lower row with one.
SwapRecordsWitness ==
    /\ sres.ran
    /\ Len(sres.swaps) = 1
    /\ sres.emitted.count - sres.pool.count = 2
    /\ sres.pool.count >= 1

\* C38: the removal scan terminates: every iteration that removes a row
\* decrements count and every other one decrements the scan index; the row
\* examined, and so the row killed, is always in [0, count), and count never
\* exceeds the capacity.
ScanTerminates ==
    sres.ran =>
        /\ \A t \in 1 .. Len(sres.scan) :
              LET it == sres.scan[t] IN
              /\ 0 <= it.i /\ it.i < it.count /\ it.count <= Capacity
              /\ t < Len(sres.scan) =>
                    LET nx == sres.scan[t + 1] IN
                    IF it.dead THEN nx.count = it.count - 1 /\ nx.i \in {it.i, it.i - 1}
                    ELSE nx.count = it.count /\ nx.i = it.i - 1
        /\ Len(sres.scan) <= 2 * sres.emitted.count
        /\ Len(sres.scan) >= 1 => sres.scan[1].i = sres.emitted.count - 1

\* A scan over a full pool in which a removal was followed by another look
\* at the same row.
ScanTerminatesWitness ==
    /\ sres.ran
    /\ sres.emitted.count = Capacity
    /\ \E t \in 1 .. (Len(sres.scan) - 1) :
          sres.scan[t].dead /\ sres.scan[t + 1].i = sres.scan[t].i

\* A simulation configured and stepped k times from its construction.
Reference(k, interval) == tickUntil(setBounds(setRng(NewSimulation(interval, 0))), k)

\* C31: whenever the simulation is at stepIndex k, its pool and its
\* extension state are those of a simulation that ran the steps 0, ..., k-1
\* once each, in order, from the initial empty state.
ScrubConsistency ==
    View(sim) = View(Reference(sim.stepIndex, sim.historyInterval))

\* C32: every retained history entry with stepIndex k holds the state after
\* the step at step index k was executed: the EmittedPixels snapshot carries
\* the end time of that step, k * fixedDt + fixedDt, which its update
\* records in every step, and no row of the pool snapshot is dead at that
\* time; the first entry ever pushed included.  Looked at after calls that
\* ran at least one step.
SnapshotLabelling ==
    sim.log # <<>> =>
    \A j \in Retained(sim.history) :
        LET entry == sim.history.slots[j]
            endTime == entry.stepIndex * FixedDt + FixedDt
        IN /\ entry.extensionSnapshots[2].currentTime = endTime
           /\ \A i \in 0 .. (entry.pool.count - 1) :
                 endTime - entry.pool.emissionTime[i] < entry.pool.lifetime[i]

\* C36: with historyInterval = I a step at step index s pushes one snapshot
\* when s mod I = 0 and none otherwise, in update() and in scrubbing alike:
\* the pushes of a call are the initial one, if due, followed by one for each
\* such step, in order; every retained snapshot has a step index divisible
\* by I.
SparseHistory ==
    [][LET IsDue(e) == e.stepIndex % sim.historyInterval = 0
           IsPush(e) == e.hook = "commitPush"
           due == SelectSeq(sim'.log, IsDue)
           first == IF /\ isEmpty(sim.history)
                       /\ \/ op'.name = "update" /\ ~sim.paused
                          \/ op'.name = "stepForward" /\ sim.paused
                    THEN << sim.stepIndex >> ELSE <<>>
           pushes == SelectSeq(sim'.calls, IsPush)
       IN /\ [k \in 1 .. Len(pushes) |-> pushes[k].step]
                = first \o [k \in 1 .. Len(due) |-> due[k].stepIndex]
          /\ sim'.history.writeIndex = sim.history.writeIndex + Len(first) + Len(due)
          /\ \A j \in Retained(sim'.history) :
                sim'.history.slots[j].stepIndex % sim.historyInterval = 0]_vars

\* With historyInterval = 2 one scrub ran the steps 1 and 2, among others,
\* pushing for step 2 and not for step 1.
SparseHistoryWitness ==
    /\ sim.historyInterval = 2
    /\ op.name = "stepForward"
    /\ \E a, b \in 1 .. Len(sim.log) : sim.log[a].stepIndex = 1 /\ sim.log[b].stepIndex = 2
    /\ \E c \in 1 .. Len(sim.calls) : sim.calls[c] = Event("commitPush", 0, 2)
    /\ \A c \in 1 .. Len(sim.calls) : sim.calls[c] # Event("commitPush", 0, 1)

\* C37: no two retained history entries have the same stepIndex.
OneSnapshotPerStep ==
    \A j, k \in Retained(sim.history) :
        j # k => sim.history.slots[j].stepIndex # sim.history.slots[k].stepIndex

\* C35: restoring a snapshot reseeds the generator, then restores the pool,
\* then the extensions, and only then sets stepIndex from the snapshot, with
\* no pipeline stage and no extension update in between; it is done once per
\* scrub, and when no step follows the generator, the pool and stepIndex
\* (and with it the time) are those of the snapshot.
RestoreOrder ==
    [][(op'.name \in {"stepForward", "stepBackward"} /\ sim.paused /\ sim.rngSet) =>
          LET pushedFirst == op'.name = "stepForward" /\ isEmpty(sim.history)
              h == IF op'.name = "stepForward"
                   THEN ensureInitialSnapshot(sim).history ELSE sim.history
              target == IF op'.name = "stepForward" THEN sim.stepIndex + op'.n
                        ELSE Max(0, sim.stepIndex - op'.n)
              slot == findLatestNotAfter(h, target)
              snap == h.slots[slot]
              start == IF pushedFirst THEN Len(PushCalls(sim.stepIndex)) ELSE 0
              InRestore(e) == e.hook \in {"particlesRestore", "restore", "setStepIndex"}
          IN slot # 0 - 1 =>
                /\ SubSeq(sim'.calls, start + 1, start + Len(RestoreCalls(snap.stepIndex)))
                      = RestoreCalls(snap.stepIndex)
                /\ Len(SelectSeq(sim'.calls, InRestore)) = Len(Extensions) + 2
                /\ sim'.log = <<>> =>
                      /\ sim'.rng = setStepSeed(snap.stepIndex)
                      /\ Live(sim'.particles) = SnapshotRows(snap.pool)
                      /\ sim'.stepIndex = snap.stepIndex
                      /\ getTime(sim') = snap.stepIndex * FixedDt]_vars

\* stepBackward restored a snapshot of a later step with particles in it,
\* and did nothing else.
RestoreOrderWitness ==
    /\ op.name = "stepBackward"
    /\ sim.stepIndex >= 1
    /\ sim.particles.count >= 1
    /\ sim.calls = RestoreCalls(sim.stepIndex)

\* C39: after every Trails.update each key of the trail map is a live row,
\* and the trail under row i holds only positions recorded for the particle
\* that occupies row i.
TrailsFollowIdentity ==
    sres.ran =>
        \A i \in DOMAIN sres.trails :
            /\ i < sres.pool.count
            /\ \A k \in 1 .. Len(sres.trails[i]) :
                  \E m \in 1 .. Len(sres.paths[Key(Row(sres.pool, i))]) :
                     sres.trails[i][k] = sres.paths[Key(Row(sres.pool, i))][m]

----------------------------------------------------------------------------
(* Trails and EmittedPixels driven directly: updates, snapshot() and       *)
(* restore(s) of a held snapshot s, in any order.                          *)

\* The pool of the payload of the t-th call: c live rows at positions that
\* differ from call to call.
ExtPool(t, c) ==
    [count |-> c,
     px |-> [i \in Rows |-> 10 * t + i],
     vx |-> ZeroColumn,
     emissionTime |-> [i \in Rows |-> t * FixedDt],
     lifetime |-> [i \in Rows |-> 3],
     size |-> [i \in Rows |-> 1]]

\* What the extensions hold, and what the held snapshot holds.
ExtState(x) ==
    [trails |-> TrailsContent(x.heap, x.trails), pixels |-> PixelsContent(x.heap, x.pixels)]
HeldContent(x, s) ==
    [trails |-> TrailsContent(x.heap, s.trails), pixels |-> PixelsContent(x.heap, s.pixels)]

ExtInit ==
    /\ xs = [objects |-> NewExtensionObjects,
             has |-> FALSE,
             held |-> [trails |-> EmptyMap, pixels |-> NewExtensionObjects.pixels],
             taken |-> ExtState(NewExtensionObjects),
             restored |-> FALSE,
             op |-> "new", n |-> 0]
    /\ sim = 0 /\ sim2 = 0 /\ op = 0 /\ scen = 0
    /\ pool = 0 /\ ref = 0 /\ pres = 0 /\ sres = 0 /\ hs = 0

ExtFrame == UNCHANGED <<sim, sim2, op, scen, pool, ref, pres, sres, hs>>

ExtUpdate ==
    \E c \in 1 .. MaxExtRows, swaps \in {<<>>, << <<1, 0>> >>}, added \in {<<>>, << 0 >>} :
        /\ xs.n < MaxExtCalls
        /\ LET p == ExtPool(xs.n, c)
               stepResult == [added |-> added, swaps |-> swaps]
               payload == [particles |-> p,
                           context |-> [current |-> xs.n * FixedDt, delta |-> FixedDt],
                           stepResult |-> stepResult, frame |-> xs.n]
               x1 == trailsUpdateRefs(xs.objects, p, stepResult)
               x2 == pixelsUpdateRefs(x1, payload)
           IN xs' = [xs EXCEPT !.objects = x2, !.op = "update", !.n = @ + 1]
        /\ ExtFrame

ExtSnapshot ==
    /\ xs.n < MaxExtCalls
    /\ LET a == trailsSnapshotRefs(xs.objects)
           b == pixelsSnapshotRefs(a.objects)
       IN xs' = [xs EXCEPT !.objects = b.objects,
                           !.has = TRUE,
                           !.held = [trails |-> a.ret, pixels |-> b.ret],
                           !.taken = ExtState(xs.objects),
                           !.restored = FALSE,
                           !.op = "snapshot", !.n = @ + 1]
    /\ ExtFrame

ExtRestore ==
    /\ xs.n < MaxExtCalls
    /\ xs.has
    /\ LET x1 == trailsRestoreRefs(xs.objects, xs.held.trails)
           x2 == pixelsRestoreRefs(x1, xs.held.pixels)
       IN xs' = [xs EXCEPT !.objects = x2, !.restored = TRUE,
                           !.op = "restore", !.n = @ + 1]
    /\ ExtFrame

ExtNext == ExtUpdate \/ ExtSnapshot \/ ExtRestore

SpecExtensions == ExtInit /\ [][ExtNext]_vars

\* C40: snapshot() of Trails and EmittedPixels holds what the extension held,
\* restore(s) leaves the extension holding what s holds (so restore(snapshot())
\* changes nothing), and no update or restore made after snapshot() changes
\* what s holds.
SnapshotsAreDeepCopies ==
    xs.has =>
        /\ HeldContent(xs.objects, xs.held) = xs.taken
        /\ xs.op = "snapshot" => ExtState(xs.objects) = xs.taken
        /\ xs.op = "restore" => ExtState(xs.objects) = xs.taken

\* After snapshot() of trails and pixels, an update, restore(s) and another
\* update, the extensions hold something else than s.
SnapshotsAreDeepCopiesWitness ==
    /\ xs.has
    /\ xs.restored
    /\ xs.op = "update"
    /\ DOMAIN xs.taken.trails # {}
    /\ xs.taken.pixels.pixels # <<>>
    /\ ExtState(xs.objects).trails # xs.taken.trails
    /\ ExtState(xs.objects).pixels # xs.taken.pixels

====
